---- MODULE Spec2Model ----
(***************************************************************************)
(* A model of glyphx (src/src/index.ts): the leaf widgets, FocusManager,   *)
(* ScrollState, Container (the "Panel") and ContainerGroup (the "Panel     *)
(* Group"), driven by key events and by the Button's delayed reset.        *)
(*                                                                         *)
(* Strings are sequences of one-character strings.  Indices (cursor,       *)
(* focus index, hovered/selected option, scroll offsets) keep the 0-based  *)
(* values of the TypeScript source; sequences are indexed with i + 1.      *)
(***************************************************************************)
EXTENDS Integers, Sequences, FiniteSets, Bags, TLC

VARIABLES
    containers,  \* ContainerGroup.containers: the panels, each with its children
    sel,         \* ContainerGroup._sel
    timers,      \* pending setTimeout callbacks of Button.handleKey: a bag of <<panel, child>>
    ev,          \* the event handled by the last step (history)
    pre          \* containers, sel and timers before the last step (history)

vars == <<containers, sel, timers, ev, pre>>

\* ---------------------------------------------------------------- bounds

\* Input: printable keys are not delivered once the value has this length.
MaxValueLen == 1
\* Button: Return/Space is not delivered to a button while this many resets are pending.
MaxTimers == 2
\* Textarea: a key that adds a line or a character is not delivered once the
\* editor holds this many characters and line breaks together.
MaxTextSize == 1
MaxFocusArg == 4
MaxCursor == 3
MaxViewport == 3
MaxScroll == 2
\* A widget driven directly: a key that would grow a text field past MaxInputLen
\* characters, or an editor buffer past MaxEditorSize characters and line
\* breaks, is not delivered; a button is pressed at most MaxPresses times.
MaxInputLen == 3
MaxEditorSize == 3
MaxPresses == 2
\* A canvas driven directly receives at most MaxDraws drawing calls; a bar chart
\* has at most MaxBars values, each in 0..MaxBarValue, and is at most
\* MaxChartWidth columns wide.
MaxDraws == 2
MaxBars == 3
MaxBarValue == 2
MaxChartWidth == 6

\* ---------------------------------------------------------------- helpers

Max(a, b) == IF a >= b THEN a ELSE b
Min(a, b) == IF a <= b THEN a ELSE b

\* JavaScript's % : the remainder takes the sign of the dividend.
JsRem(a, b) == IF a >= 0 THEN a % b ELSE -((-a) % b)

\* String.prototype.slice(a, b) and .slice(a)
JsSlice(s, a, b) ==
    LET n == Len(s)
        from == IF a < 0 THEN Max(n + a, 0) ELSE Min(a, n)
        to == IF b < 0 THEN Max(n + b, 0) ELSE Min(b, n)
    IN IF from >= to THEN <<>> ELSE SubSeq(s, from + 1, to)

JsSliceFrom(s, a) == JsSlice(s, a, Len(s))

RECURSIVE SumSeq(_)
SumSeq(s) == IF s = <<>> THEN 0 ELSE Head(s) + SumSeq(Tail(s))

RECURSIVE MaxSeq(_)
MaxSeq(s) == IF s = <<>> THEN 0 ELSE Max(Head(s), MaxSeq(Tail(s)))

\* ---------------------------------------------------------------- key events

\* readline.Key: name, sequence, ctrl, meta, shift
Key(n, s, c, m, sh) == [name |-> n, sequence |-> s, ctrl |-> c, meta |-> m, shift |-> sh]

\* The byte sequence readline reports for a named key.
KeySequence(n) ==
    CASE n = "return" -> <<"\r">>
      [] n = "escape" -> <<"ESC">>
      [] n = "tab" -> <<"\t">>
      [] n = "space" -> <<" ">>
      [] n = "backspace" -> <<"DEL">>
      [] n = "up" -> <<"ESC", "[", "A">>
      [] n = "down" -> <<"ESC", "[", "B">>
      [] n = "right" -> <<"ESC", "[", "C">>
      [] n = "left" -> <<"ESC", "[", "D">>
      [] n = "home" -> <<"ESC", "[", "H">>
      [] n = "end" -> <<"ESC", "[", "F">>
      [] n = "delete" -> <<"ESC", "[", "3", "~">>

KeyNames ==
    {"left", "right", "up", "down", "home", "end", "backspace", "delete",
     "return", "escape", "tab", "space"}

Named(n) == Key(n, KeySequence(n), FALSE, FALSE, FALSE)
Shift(k) == [k EXCEPT !.shift = TRUE]
Ctrl(k) == [k EXCEPT !.ctrl = TRUE]
Char(ch) == Key("", <<ch>>, FALSE, FALSE, FALSE)

\* readline reports a line feed as the key "enter"
Enter == Key("enter", <<"\n">>, FALSE, FALSE, FALSE)

\* The key events the dispatcher delivers.
Keys ==
    {Named(n) : n \in KeyNames}
        \cup {Shift(Named("tab")), Shift(Named("right")), Shift(Named("left"))}
        \cup {Ctrl(Named("home")), Ctrl(Named("end"))}
        \cup {Char("a"), Ctrl(Key("a", <<"SOH">>, FALSE, FALSE, FALSE))}

\* ---------------------------------------------------------------- ScrollState

ScrollState == [x |-> 0, y |-> 0]

setX(s, value, max) == [s EXCEPT !.x = Max(0, Min(value, max))]

\* setY without the floor at 0
setYNoFloor(s, value, max) == [s EXCEPT !.y = Min(value, max)]

setY(s, value, max) == [s EXCEPT !.y = Max(0, Min(value, max))]

\* clampHorizontal without the "+ 1" when the cursor is past the viewport
clampHorizontalShort(s, cursor, viewportWidth) ==
    LET x1 == IF cursor < s.x THEN cursor ELSE s.x
        x2 == IF cursor >= x1 + viewportWidth THEN cursor - viewportWidth ELSE x1
    IN [s EXCEPT !.x = Max(0, x2)]

clampHorizontal(s, cursor, viewportWidth) ==
    LET x1 == IF cursor < s.x THEN cursor ELSE s.x
        x2 == IF cursor >= x1 + viewportWidth THEN cursor - viewportWidth + 1 ELSE x1
    IN [s EXCEPT !.x = Max(0, x2)]

\* clampVertical putting a cursor found above the viewport on its second row
clampVerticalLoose(s, cursor, viewportHeight, maxScroll) ==
    LET y1 == IF cursor < s.y THEN cursor - 1 ELSE s.y
        y2 == IF cursor >= y1 + viewportHeight THEN cursor - viewportHeight + 1 ELSE y1
    IN [s EXCEPT !.y = Max(0, Min(y2, maxScroll))]

clampVertical(s, cursor, viewportHeight, maxScroll) ==
    LET y1 == IF cursor < s.y THEN cursor ELSE s.y
        y2 == IF cursor >= y1 + viewportHeight THEN cursor - viewportHeight + 1 ELSE y1
    IN [s EXCEPT !.y = Max(0, Min(y2, maxScroll))]

\* ---------------------------------------------------------------- widgets

\* What a child's handleKey returns: the widget afterwards, the boolean it
\* reports, and whether it called setTimeout.
Handled(w, consumed) == [w |-> w, consumed |-> consumed, timer |-> FALSE]

Label(text) == [kind |-> "label", text |-> text]

Input(width) ==
    [kind |-> "input", width |-> width, value |-> <<>>, cursor |-> 0,
     scroll |-> ScrollState, focused |-> FALSE]

InputClampScroll(w) ==
    [w EXCEPT !.scroll = clampHorizontal(w.scroll, w.cursor, w.width - 2)]

\* setValue(v)
InputSetValue(w, v) == InputClampScroll([w EXCEPT !.value = v, !.cursor = Len(v)])

\* handleKey appending a typed character instead of inserting it at the cursor
InputHandleKeyAppend(w, key) ==
    LET n == key.name IN
    IF n = "left" THEN
        Handled(InputClampScroll([w EXCEPT !.cursor = Max(0, w.cursor - 1)]), TRUE)
    ELSE IF n = "right" THEN
        Handled(InputClampScroll([w EXCEPT !.cursor = Min(Len(w.value), w.cursor + 1)]), TRUE)
    ELSE IF n = "home" THEN
        Handled(InputClampScroll([w EXCEPT !.cursor = 0]), TRUE)
    ELSE IF n = "end" THEN
        Handled(InputClampScroll([w EXCEPT !.cursor = Len(w.value)]), TRUE)
    ELSE IF n = "backspace" THEN
        Handled(InputClampScroll(
            IF w.cursor > 0
            THEN [w EXCEPT !.value = JsSlice(w.value, 0, w.cursor - 1)
                                         \o JsSliceFrom(w.value, w.cursor),
                           !.cursor = w.cursor - 1]
            ELSE w), TRUE)
    ELSE IF n = "delete" THEN
        Handled(InputClampScroll(
            IF w.cursor < Len(w.value)
            THEN [w EXCEPT !.value = JsSlice(w.value, 0, w.cursor)
                                         \o JsSliceFrom(w.value, w.cursor + 1)]
            ELSE w), TRUE)
    ELSE IF /\ n # "return" /\ n # "escape" /\ n # "tab"
            /\ key.sequence # <<>> /\ ~key.ctrl /\ ~key.meta
            /\ Len(key.sequence) = 1 THEN
        Handled(InputClampScroll(
            [w EXCEPT !.value = w.value \o key.sequence,
                      !.cursor = w.cursor + 1]), TRUE)
    ELSE Handled(w, FALSE)

\* handleKey moving the cursor left without _clampScroll()
InputHandleKeyNoClamp(w, key) ==
    LET n == key.name IN
    IF n = "left" THEN
        Handled([w EXCEPT !.cursor = Max(0, w.cursor - 1)], TRUE)
    ELSE IF n = "right" THEN
        Handled(InputClampScroll([w EXCEPT !.cursor = Min(Len(w.value), w.cursor + 1)]), TRUE)
    ELSE IF n = "home" THEN
        Handled(InputClampScroll([w EXCEPT !.cursor = 0]), TRUE)
    ELSE IF n = "end" THEN
        Handled(InputClampScroll([w EXCEPT !.cursor = Len(w.value)]), TRUE)
    ELSE IF n = "backspace" THEN
        Handled(InputClampScroll(
            IF w.cursor > 0
            THEN [w EXCEPT !.value = JsSlice(w.value, 0, w.cursor - 1)
                                         \o JsSliceFrom(w.value, w.cursor),
                           !.cursor = w.cursor - 1]
            ELSE w), TRUE)
    ELSE IF n = "delete" THEN
        Handled(InputClampScroll(
            IF w.cursor < Len(w.value)
            THEN [w EXCEPT !.value = JsSlice(w.value, 0, w.cursor)
                                         \o JsSliceFrom(w.value, w.cursor + 1)]
            ELSE w), TRUE)
    ELSE IF /\ n # "return" /\ n # "escape" /\ n # "tab"
            /\ key.sequence # <<>> /\ ~key.ctrl /\ ~key.meta
            /\ Len(key.sequence) = 1 THEN
        Handled(InputClampScroll(
            [w EXCEPT !.value = JsSlice(w.value, 0, w.cursor) \o key.sequence
                                    \o JsSliceFrom(w.value, w.cursor),
                      !.cursor = w.cursor + 1]), TRUE)
    ELSE Handled(w, FALSE)

InputHandleKey(w, key) ==
    LET n == key.name IN
    IF n = "left" THEN
        Handled(InputClampScroll([w EXCEPT !.cursor = Max(0, w.cursor - 1)]), TRUE)
    ELSE IF n = "right" THEN
        Handled(InputClampScroll([w EXCEPT !.cursor = Min(Len(w.value), w.cursor + 1)]), TRUE)
    ELSE IF n = "home" THEN
        Handled(InputClampScroll([w EXCEPT !.cursor = 0]), TRUE)
    ELSE IF n = "end" THEN
        Handled(InputClampScroll([w EXCEPT !.cursor = Len(w.value)]), TRUE)
    ELSE IF n = "backspace" THEN
        Handled(InputClampScroll(
            IF w.cursor > 0
            THEN [w EXCEPT !.value = JsSlice(w.value, 0, w.cursor - 1)
                                         \o JsSliceFrom(w.value, w.cursor),
                           !.cursor = w.cursor - 1]
            ELSE w), TRUE)
    ELSE IF n = "delete" THEN
        Handled(InputClampScroll(
            IF w.cursor < Len(w.value)
            THEN [w EXCEPT !.value = JsSlice(w.value, 0, w.cursor)
                                         \o JsSliceFrom(w.value, w.cursor + 1)]
            ELSE w), TRUE)
    ELSE IF /\ n # "return" /\ n # "escape" /\ n # "tab"
            /\ key.sequence # <<>> /\ ~key.ctrl /\ ~key.meta
            /\ Len(key.sequence) = 1 THEN
        Handled(InputClampScroll(
            [w EXCEPT !.value = JsSlice(w.value, 0, w.cursor) \o key.sequence
                                    \o JsSliceFrom(w.value, w.cursor),
                      !.cursor = w.cursor + 1]), TRUE)
    ELSE Handled(w, FALSE)

\* new Select(width, options, initialIndex)
Select(width, options, initialIndex) ==
    LET s == Max(0, Min(initialIndex, Len(options) - 1)) IN
    [kind |-> "select", width |-> width, options |-> options, open |-> FALSE,
     focused |-> FALSE, hovered |-> s, selected |-> s]

\* handleKey with an open dropdown closing on Tab and reporting it consumed
SelectHandleKeyTab(w, key) ==
    LET n == key.name IN
    IF ~w.open THEN
        IF n = "return" \/ n = "space"
        THEN Handled([w EXCEPT !.open = TRUE, !.hovered = w.selected], TRUE)
        ELSE Handled(w, FALSE)
    ELSE IF n = "up" THEN
        Handled([w EXCEPT !.hovered = Max(0, w.hovered - 1)], TRUE)
    ELSE IF n = "down" THEN
        Handled([w EXCEPT !.hovered = Min(Len(w.options) - 1, w.hovered + 1)], TRUE)
    ELSE IF n = "return" THEN
        Handled([w EXCEPT !.selected = w.hovered, !.open = FALSE], TRUE)
    ELSE IF n = "escape" \/ n = "tab" THEN
        Handled([w EXCEPT !.open = FALSE], TRUE)
    ELSE Handled(w, FALSE)

\* handleKey with Escape committing the hovered option
SelectHandleKeyEscapeCommits(w, key) ==
    LET n == key.name IN
    IF ~w.open THEN
        IF n = "return" \/ n = "space"
        THEN Handled([w EXCEPT !.open = TRUE, !.hovered = w.selected], TRUE)
        ELSE Handled(w, FALSE)
    ELSE IF n = "up" THEN
        Handled([w EXCEPT !.hovered = Max(0, w.hovered - 1)], TRUE)
    ELSE IF n = "down" THEN
        Handled([w EXCEPT !.hovered = Min(Len(w.options) - 1, w.hovered + 1)], TRUE)
    ELSE IF n = "return" THEN
        Handled([w EXCEPT !.selected = w.hovered, !.open = FALSE], TRUE)
    ELSE IF n = "escape" THEN
        Handled([w EXCEPT !.selected = w.hovered, !.open = FALSE], TRUE)
    ELSE Handled(w, FALSE)

\* handleKey opening the dropdown with the hover left where it was
SelectHandleKeyStaleHover(w, key) ==
    LET n == key.name IN
    IF ~w.open THEN
        IF n = "return" \/ n = "space"
        THEN Handled([w EXCEPT !.open = TRUE], TRUE)
        ELSE Handled(w, FALSE)
    ELSE IF n = "up" THEN
        Handled([w EXCEPT !.hovered = Max(0, w.hovered - 1)], TRUE)
    ELSE IF n = "down" THEN
        Handled([w EXCEPT !.hovered = Min(Len(w.options) - 1, w.hovered + 1)], TRUE)
    ELSE IF n = "return" THEN
        Handled([w EXCEPT !.selected = w.hovered, !.open = FALSE], TRUE)
    ELSE IF n = "escape" THEN
        Handled([w EXCEPT !.open = FALSE], TRUE)
    ELSE Handled(w, FALSE)

\* handleKey consuming Escape on an open dropdown without closing it
SelectHandleKeyEscapeStuck(w, key) ==
    LET n == key.name IN
    IF ~w.open THEN
        IF n = "return" \/ n = "space"
        THEN Handled([w EXCEPT !.open = TRUE, !.hovered = w.selected], TRUE)
        ELSE Handled(w, FALSE)
    ELSE IF n = "up" THEN
        Handled([w EXCEPT !.hovered = Max(0, w.hovered - 1)], TRUE)
    ELSE IF n = "down" THEN
        Handled([w EXCEPT !.hovered = Min(Len(w.options) - 1, w.hovered + 1)], TRUE)
    ELSE IF n = "return" THEN
        Handled([w EXCEPT !.selected = w.hovered, !.open = FALSE], TRUE)
    ELSE IF n = "escape" THEN
        Handled(w, TRUE)
    ELSE Handled(w, FALSE)

SelectHandleKey(w, key) ==
    LET n == key.name IN
    IF ~w.open THEN
        IF n = "return" \/ n = "space"
        THEN Handled([w EXCEPT !.open = TRUE, !.hovered = w.selected], TRUE)
        ELSE Handled(w, FALSE)
    ELSE IF n = "up" THEN
        Handled([w EXCEPT !.hovered = Max(0, w.hovered - 1)], TRUE)
    ELSE IF n = "down" THEN
        Handled([w EXCEPT !.hovered = Min(Len(w.options) - 1, w.hovered + 1)], TRUE)
    ELSE IF n = "return" THEN
        Handled([w EXCEPT !.selected = w.hovered, !.open = FALSE], TRUE)
    ELSE IF n = "escape" THEN
        Handled([w EXCEPT !.open = FALSE], TRUE)
    ELSE Handled(w, FALSE)

\* new Radio(options, initialIndex)
Radio(options, initialIndex) ==
    LET s == Max(0, Min(initialIndex, Len(options) - 1)) IN
    [kind |-> "radio", options |-> options, focused |-> FALSE,
     hovered |-> s, selected |-> s]

RadioHandleKey(w, key) ==
    LET n == key.name IN
    IF n = "up" THEN
        Handled([w EXCEPT !.hovered = Max(0, w.hovered - 1)], TRUE)
    ELSE IF n = "down" THEN
        Handled([w EXCEPT !.hovered = Min(Len(w.options) - 1, w.hovered + 1)], TRUE)
    ELSE IF n = "return" \/ n = "space" THEN
        Handled([w EXCEPT !.selected = w.hovered], TRUE)
    ELSE Handled(w, FALSE)

CheckBox(label, initialChecked) ==
    [kind |-> "checkbox", label |-> label, focused |-> FALSE, checked |-> initialChecked]

CheckBoxHandleKey(w, key) ==
    IF key.name = "return" \/ key.name = "space"
    THEN Handled([w EXCEPT !.checked = ~w.checked], TRUE)
    ELSE Handled(w, FALSE)

Button(width) ==
    [kind |-> "button", width |-> width, focused |-> FALSE, pressed |-> FALSE]

\* handleKey setting pressed without scheduling the reset
ButtonHandleKeyNoTimer(w, key) ==
    IF key.name = "return" \/ key.name = "space"
    THEN Handled([w EXCEPT !.pressed = TRUE], TRUE)
    ELSE Handled(w, FALSE)

ButtonHandleKey(w, key) ==
    IF key.name = "return" \/ key.name = "space"
    THEN [w |-> [w EXCEPT !.pressed = TRUE], consumed |-> TRUE, timer |-> TRUE]
    ELSE Handled(w, FALSE)

\* the callback of setTimeout leaving pressed set
ButtonTimeoutKeepsPressed(w) == [w |-> w, onRender |-> 1]

\* the callback Button.handleKey hands to setTimeout:
\* _pressed = false; onRender?.()
ButtonTimeout(w) == [w |-> [w EXCEPT !.pressed = FALSE], onRender |-> 1]

\* new Textarea(width, height, initialValue) with initialValue already split on "\n"
Textarea(width, height, lines) ==
    [kind |-> "textarea", width |-> width, height |-> height,
     lines |-> IF lines = <<>> THEN << <<>> >> ELSE lines,
     cursorRow |-> 0, cursorCol |-> 0, scroll |-> ScrollState, focused |-> FALSE]

TextareaIw(w) == w.width - 2
TextareaIh(w) == w.height - 2

\* this._lines[i] ?? ""
LineAt(w, i) == IF i >= 0 /\ i < Len(w.lines) THEN w.lines[i + 1] ELSE <<>>

CurrentLine(w) == LineAt(w, w.cursorRow)

\* Array.prototype.splice(at, 0, line) and splice(at, 1)
SpliceIn(lines, at, line) == SubSeq(lines, 1, at) \o <<line>> \o SubSeq(lines, at + 1, Len(lines))
SpliceOut(lines, at) == SubSeq(lines, 1, at) \o SubSeq(lines, at + 2, Len(lines))

MoveCursorLeft(w) ==
    IF w.cursorCol > 0 THEN [w EXCEPT !.cursorCol = w.cursorCol - 1]
    ELSE IF w.cursorRow > 0
    THEN [w EXCEPT !.cursorRow = w.cursorRow - 1,
                   !.cursorCol = Len(LineAt(w, w.cursorRow - 1))]
    ELSE w

MoveCursorRight(w) ==
    IF w.cursorCol < Len(CurrentLine(w)) THEN [w EXCEPT !.cursorCol = w.cursorCol + 1]
    ELSE IF w.cursorRow < Len(w.lines) - 1
    THEN [w EXCEPT !.cursorRow = w.cursorRow + 1, !.cursorCol = 0]
    ELSE w

\* _moveCursorUp keeping the column without clamping it to the line above
MoveCursorUpKeepCol(w) ==
    IF w.cursorRow > 0 THEN [w EXCEPT !.cursorRow = w.cursorRow - 1] ELSE w

MoveCursorUp(w) ==
    IF w.cursorRow > 0
    THEN [w EXCEPT !.cursorRow = w.cursorRow - 1,
                   !.cursorCol = Min(w.cursorCol, Len(LineAt(w, w.cursorRow - 1)))]
    ELSE w

MoveCursorDown(w) ==
    IF w.cursorRow < Len(w.lines) - 1
    THEN [w EXCEPT !.cursorRow = w.cursorRow + 1,
                   !.cursorCol = Min(w.cursorCol, Len(LineAt(w, w.cursorRow + 1)))]
    ELSE w

InsertChar(w, ch) ==
    LET line == CurrentLine(w) IN
    [w EXCEPT !.lines[w.cursorRow + 1] =
                  JsSlice(line, 0, w.cursorCol) \o ch \o JsSliceFrom(line, w.cursorCol),
              !.cursorCol = w.cursorCol + 1]

\* _insertNewline leaving the whole line in place above the new one
InsertNewlineKeepLine(w) ==
    LET line == CurrentLine(w) IN
    [w EXCEPT !.lines = SpliceIn(w.lines, w.cursorRow + 1, JsSliceFrom(line, w.cursorCol)),
              !.cursorRow = w.cursorRow + 1,
              !.cursorCol = 0]

InsertNewline(w) ==
    LET line == CurrentLine(w)
        cut == [w.lines EXCEPT ![w.cursorRow + 1] = JsSlice(line, 0, w.cursorCol)]
    IN [w EXCEPT !.lines = SpliceIn(cut, w.cursorRow + 1, JsSliceFrom(line, w.cursorCol)),
                 !.cursorRow = w.cursorRow + 1,
                 !.cursorCol = 0]

DeleteBackward(w) ==
    IF w.cursorCol > 0 THEN
        LET line == CurrentLine(w) IN
        [w EXCEPT !.lines[w.cursorRow + 1] =
                      JsSlice(line, 0, w.cursorCol - 1) \o JsSliceFrom(line, w.cursorCol),
                  !.cursorCol = w.cursorCol - 1]
    ELSE IF w.cursorRow > 0 THEN
        LET prevLine == LineAt(w, w.cursorRow - 1)
            joined == [w.lines EXCEPT ![w.cursorRow] = prevLine \o CurrentLine(w)]
        IN [w EXCEPT !.cursorCol = Len(prevLine),
                     !.lines = SpliceOut(joined, w.cursorRow),
                     !.cursorRow = w.cursorRow - 1]
    ELSE w

\* _deleteForward dropping the next line instead of joining it
DeleteForwardDropLine(w) ==
    LET line == CurrentLine(w) IN
    IF w.cursorCol < Len(line) THEN
        [w EXCEPT !.lines[w.cursorRow + 1] =
                      JsSlice(line, 0, w.cursorCol) \o JsSliceFrom(line, w.cursorCol + 1)]
    ELSE IF w.cursorRow < Len(w.lines) - 1 THEN
        [w EXCEPT !.lines = SpliceOut(w.lines, w.cursorRow + 1)]
    ELSE w

DeleteForward(w) ==
    LET line == CurrentLine(w) IN
    IF w.cursorCol < Len(line) THEN
        [w EXCEPT !.lines[w.cursorRow + 1] =
                      JsSlice(line, 0, w.cursorCol) \o JsSliceFrom(line, w.cursorCol + 1)]
    ELSE IF w.cursorRow < Len(w.lines) - 1 THEN
        LET joined == [w.lines EXCEPT ![w.cursorRow + 1] = line \o LineAt(w, w.cursorRow + 1)]
        IN [w EXCEPT !.lines = SpliceOut(joined, w.cursorRow + 1)]
    ELSE w

\* getValue(): _lines.join("\n")
TextareaGetValue(w) ==
    LET RECURSIVE Join(_)
        Join(ls) == IF Len(ls) = 1 THEN ls[1] ELSE ls[1] \o <<"\n">> \o Join(Tail(ls))
    IN Join(w.lines)

\* String.prototype.split("\n")
RECURSIVE SplitLines(_)
SplitLines(v) ==
    IF \A i \in 1..Len(v) : v[i] # "\n" THEN <<v>>
    ELSE LET i == CHOOSE i \in 1..Len(v) : v[i] = "\n" /\ \A j \in 1..(i - 1) : v[j] # "\n"
         IN <<SubSeq(v, 1, i - 1)>> \o SplitLines(SubSeq(v, i + 1, Len(v)))

\* setValue(v)
TextareaSetValue(w, v) ==
    [w EXCEPT !.lines = IF Len(v) > 0 THEN SplitLines(v) ELSE << <<>> >>,
              !.cursorRow = 0, !.cursorCol = 0, !.scroll = ScrollState]

\* _clampScroll without the vertical clamp
TextareaClampScrollNoVertical(w) ==
    [w EXCEPT !.scroll = clampHorizontal(w.scroll, w.cursorCol, TextareaIw(w))]

TextareaClampScroll(w) ==
    LET maxScrollY == Max(0, Len(w.lines) - TextareaIh(w))
        v == clampVertical(w.scroll, w.cursorRow, TextareaIh(w), maxScrollY)
    IN [w EXCEPT !.scroll = clampHorizontal(v, w.cursorCol, TextareaIw(w))]

TextareaHandleKey(w, key) ==
    LET n == key.name IN
    IF n = "tab" \/ n = "escape" THEN Handled(w, FALSE)
    ELSE IF n = "left" THEN Handled(TextareaClampScroll(MoveCursorLeft(w)), TRUE)
    ELSE IF n = "right" THEN Handled(TextareaClampScroll(MoveCursorRight(w)), TRUE)
    ELSE IF n = "up" THEN Handled(TextareaClampScroll(MoveCursorUp(w)), TRUE)
    ELSE IF n = "down" THEN Handled(TextareaClampScroll(MoveCursorDown(w)), TRUE)
    ELSE IF n = "home" THEN
        Handled(TextareaClampScroll(
            [w EXCEPT !.cursorRow = IF key.ctrl THEN 0 ELSE w.cursorRow,
                      !.cursorCol = 0]), TRUE)
    ELSE IF n = "end" THEN
        LET row == IF key.ctrl THEN Len(w.lines) - 1 ELSE w.cursorRow IN
        Handled(TextareaClampScroll(
            [w EXCEPT !.cursorRow = row, !.cursorCol = Len(LineAt(w, row))]), TRUE)
    ELSE IF n = "backspace" THEN Handled(TextareaClampScroll(DeleteBackward(w)), TRUE)
    ELSE IF n = "delete" THEN Handled(TextareaClampScroll(DeleteForward(w)), TRUE)
    ELSE IF n = "return" THEN Handled(TextareaClampScroll(InsertNewline(w)), TRUE)
    ELSE IF key.sequence # <<>> /\ ~key.ctrl /\ ~key.meta /\ Len(key.sequence) = 1 THEN
        Handled(TextareaClampScroll(InsertChar(w, key.sequence)), TRUE)
    ELSE Handled(w, FALSE)

\* ---------------------------------------------------------------- the widget contracts

\* "isFocused" in c
IsFocusable(w) == w.kind \in {"input", "select", "radio", "checkbox", "button", "textarea"}

lineCount(w) ==
    CASE w.kind = "label" -> 1
      [] w.kind = "input" -> 1
      [] w.kind = "select" -> IF w.open THEN 1 + Len(w.options) ELSE 1
      [] w.kind = "radio" -> Len(w.options)
      [] w.kind = "checkbox" -> 1
      [] w.kind = "button" -> 1
      [] w.kind = "textarea" -> w.height

naturalWidth(w) ==
    CASE w.kind = "label" -> Len(w.text)
      [] w.kind = "input" -> w.width
      [] w.kind = "select" -> w.width
      [] w.kind = "radio" -> 3 + MaxSeq([i \in 1..Len(w.options) |-> Len(w.options[i])])
      [] w.kind = "checkbox" -> 4 + Len(w.label)
      [] w.kind = "button" -> w.width
      [] w.kind = "textarea" -> w.width

\* target.activeLineHint?.() ?? 0
activeLineHint(w) ==
    CASE w.kind = "select" -> IF w.open THEN 1 + w.hovered ELSE 0
      [] w.kind = "radio" -> w.hovered
      [] w.kind = "textarea" -> 1 + (w.cursorRow - w.scroll.y)
      [] OTHER -> 0

focus(w) == [w EXCEPT !.focused = TRUE]

\* blur() clearing only the focused flag
blurKeepsOpen(w) == [w EXCEPT !.focused = FALSE]

blur(w) ==
    CASE w.kind = "select" -> [w EXCEPT !.focused = FALSE, !.open = FALSE]
      [] w.kind = "button" -> [w EXCEPT !.focused = FALSE, !.pressed = FALSE]
      [] OTHER -> [w EXCEPT !.focused = FALSE]

handleKey(w, key) ==
    CASE w.kind = "input" -> InputHandleKey(w, key)
      [] w.kind = "select" -> SelectHandleKey(w, key)
      [] w.kind = "radio" -> RadioHandleKey(w, key)
      [] w.kind = "checkbox" -> CheckBoxHandleKey(w, key)
      [] w.kind = "button" -> ButtonHandleKey(w, key)
      [] w.kind = "textarea" -> TextareaHandleKey(w, key)

\* ---------------------------------------------------------------- FocusManager
\* The manager's _focusables are the focusable children of its container, in
\* order; _idx is the container record's field focus.

\* children.flatMap((c) => "isFocused" in c ? [c] : []), as child positions
RECURSIVE FocusablesFrom(_, _)
FocusablesFrom(children, i) ==
    IF i > Len(children) THEN <<>>
    ELSE (IF IsFocusable(children[i]) THEN <<i>> ELSE <<>>)
             \o FocusablesFrom(children, i + 1)

Focusables(c) == FocusablesFrom(c.children, 1)

\* get current(): the child position of _focusables[_idx], 0 for undefined
Current(c) ==
    LET f == Focusables(c) IN
    IF c.focus >= 0 /\ c.focus < Len(f) THEN f[c.focus + 1] ELSE 0

\* hasFocus taking index 0 for "no focus"
hasFocusOffByOne(c) == c.focus > 0

hasFocus(c) == c.focus >= 0

\* this.current?.blur()
blurActive(c) ==
    LET p == Current(c) IN
    IF p = 0 THEN c ELSE [c EXCEPT !.children[p] = blur(c.children[p])]

\* this.current?.focus()
focusCurrent(c) ==
    LET p == Current(c) IN
    IF p = 0 THEN c ELSE [c EXCEPT !.children[p] = focus(c.children[p])]

\* focusAt without _blurActive()
focusAtNoBlur(c, i) ==
    focusCurrent([c EXCEPT !.focus = Max(0, Min(i, Len(Focusables(c)) - 1))])

focusAt(c, i) ==
    LET b == blurActive(c) IN
    focusCurrent([b EXCEPT !.focus = Max(0, Min(i, Len(Focusables(c)) - 1))])

\* cycle without "+ len": the index goes negative instead of wrapping
cycleNoWrap(c, direction) ==
    LET len == Len(Focusables(c)) IN
    IF len = 0 THEN c
    ELSE LET b == blurActive(c) IN
         focusCurrent([b EXCEPT !.focus = JsRem(c.focus + direction, len)])

cycle(c, direction) ==
    LET len == Len(Focusables(c)) IN
    IF len = 0 THEN c
    ELSE LET b == blurActive(c) IN
         focusCurrent([b EXCEPT !.focus = JsRem(c.focus + direction + len, len)])

\* clear without _blurActive(): the child keeps its focused flag
clearNoBlur(c) == [c EXCEPT !.focus = -1]

clear(c) == [blurActive(c) EXCEPT !.focus = -1]

\* initFirst starting at index 1
initFirstSecond(c) ==
    IF Len(Focusables(c)) > 0 /\ c.focus < 0 THEN focusAt(c, 1) ELSE c

initFirst(c) ==
    IF Len(Focusables(c)) > 0 /\ c.focus < 0 THEN focusAt(c, 0) ELSE c

\* ---------------------------------------------------------------- Container

\* new Container(style, children)
Container(width, height, children) ==
    [style |-> [width |-> width, height |-> height], children |-> children,
     state |-> "default", scroll |-> ScrollState, focus |-> -1]

iw(c) == c.style.width - 4
ih(c) == c.style.height - 3
contentWidth(c) == iw(c) - 2

totalLines(c) == SumSeq([i \in 1..Len(c.children) |-> lineCount(c.children[i])])
maxLineWidth(c) == MaxSeq([i \in 1..Len(c.children) |-> naturalWidth(c.children[i])])
maxScrollY(c) == Max(0, totalLines(c) - ih(c))
maxScrollX(c) == Max(0, maxLineWidth(c) - contentWidth(c))

\* the sum of lineCount() over the children before position p
LineOffset(c, p) == SumSeq([i \in 1..(p - 1) |-> lineCount(c.children[i])])

\* scrollToFocused with "desired" one row short
scrollToFocusedOffByOne(c) ==
    LET p == Current(c) IN
    IF p = 0 THEN c
    ELSE LET lineOffset == LineOffset(c, p)
             hint == activeLineHint(c.children[p])
             targetLine == lineOffset + hint
             topAnchor == lineOffset
         IN IF targetLine < c.scroll.y THEN
                [c EXCEPT !.scroll = setY(c.scroll, Min(targetLine, topAnchor), maxScrollY(c))]
            ELSE IF targetLine >= c.scroll.y + ih(c) THEN
                LET desired == targetLine - ih(c) IN
                [c EXCEPT !.scroll = setY(c.scroll, Min(desired, topAnchor), maxScrollY(c))]
            ELSE c

scrollToFocused(c) ==
    LET p == Current(c) IN
    IF p = 0 THEN c
    ELSE LET lineOffset == LineOffset(c, p)
             hint == activeLineHint(c.children[p])
             targetLine == lineOffset + hint
             topAnchor == lineOffset
         IN IF targetLine < c.scroll.y THEN
                [c EXCEPT !.scroll = setY(c.scroll, Min(targetLine, topAnchor), maxScrollY(c))]
            ELSE IF targetLine >= c.scroll.y + ih(c) THEN
                LET desired == targetLine - ih(c) + 1 IN
                [c EXCEPT !.scroll = setY(c.scroll, Min(desired, topAnchor), maxScrollY(c))]
            ELSE c

\* What Container.handleKey leaves behind: the container, and the child
\* position of a Button that called setTimeout (0 for none).
Routed(c, timer) == [c |-> c, timer |-> timer]

\* const active = this._focus.current; active.handleKey(key) when there is one
ChildHandleKey(c, key) ==
    LET active == Current(c) IN
    IF active # 0 THEN handleKey(c.children[active], key)
    ELSE [w |-> <<>>, consumed |-> FALSE, timer |-> FALSE]

\* _handleFocusMode without the return after a consumed key
handleFocusModeFallThrough(c, key) ==
    LET Rest(active, r) ==
            LET n == key.name
                d0 == IF active # 0 THEN [c EXCEPT !.children[active] = r.w] ELSE c
                t == IF r.timer THEN active ELSE 0
            IN IF n = "tab" THEN
                   Routed(scrollToFocused(cycle(
                       IF active # 0 /\ r.consumed THEN scrollToFocused(d0) ELSE d0,
                       IF key.shift THEN -1 ELSE 1)), t)
               ELSE IF n = "escape" THEN
                   Routed(IF hasFocus(d0) THEN clear(d0) ELSE [d0 EXCEPT !.state = "select"], t)
               ELSE Routed(IF active # 0 /\ r.consumed THEN scrollToFocused(d0) ELSE d0, t)
    IN Rest(Current(c), ChildHandleKey(c, key))

\* _handleFocusMode once the focused child (position active, 0 for none) has
\* answered r to the key
handleFocusModeAfter(c, key, active, r) ==
    LET n == key.name
        d == IF active # 0 THEN [c EXCEPT !.children[active] = r.w] ELSE c
        t == IF r.timer THEN active ELSE 0
    IN IF active # 0 /\ r.consumed THEN Routed(scrollToFocused(d), t)
       ELSE IF n = "tab" THEN
           Routed(scrollToFocused(cycle(d, IF key.shift THEN -1 ELSE 1)), t)
       ELSE IF n = "escape" THEN
           Routed(IF hasFocus(d) THEN clear(d) ELSE [d EXCEPT !.state = "select"], t)
       ELSE IF ~hasFocus(d) THEN
           Routed(
               CASE n = "up" -> [d EXCEPT !.scroll = setY(d.scroll, d.scroll.y - 1, maxScrollY(d))]
                 [] n = "down" -> [d EXCEPT !.scroll = setY(d.scroll, d.scroll.y + 1, maxScrollY(d))]
                 [] n = "left" -> [d EXCEPT !.scroll = setX(d.scroll, d.scroll.x - 1, maxScrollX(d))]
                 [] n = "right" -> [d EXCEPT !.scroll = setX(d.scroll, d.scroll.x + 1, maxScrollX(d))]
                 [] OTHER -> d, t)
       ELSE Routed(d, t)

handleFocusMode(c, key) ==
    handleFocusModeAfter(c, key, Current(c), ChildHandleKey(c, key))

\* handleKey entering Active on Return from any mode
ContainerHandleKeyAnyState(c, key) ==
    IF c.state = "focus" THEN handleFocusMode(c, key)
    ELSE IF key.name = "return" THEN
        Routed(scrollToFocused(initFirst([c EXCEPT !.state = "focus"])), 0)
    ELSE Routed(c, 0)

ContainerHandleKey(c, key) ==
    IF c.state = "focus" THEN handleFocusMode(c, key)
    ELSE IF c.state = "select" /\ key.name = "return" THEN
        Routed(scrollToFocused(initFirst([c EXCEPT !.state = "focus"])), 0)
    ELSE Routed(c, 0)

setState(c, s) == [c EXCEPT !.state = s]

\* ---------------------------------------------------------------- ContainerGroup

\* What ContainerGroup.handleKey leaves behind: the containers, _sel, and the
\* <<panel, child>> of a Button that called setTimeout (<<>> for none).
Grouped(cs, s, timer) == [containers |-> cs, sel |-> s, timer |-> timer]

\* findIndex looking for the wrong mode
FocusedIdxWrongState(cs) ==
    LET hits == {i \in 1..Len(cs) : cs[i].state = "select"} IN
    IF hits = {} THEN -1
    ELSE (CHOOSE i \in hits : \A j \in hits : i <= j) - 1

\* containers.findIndex((c) => c.getState() === "focus"), -1 when none
FocusedIdx(cs) ==
    LET hits == {i \in 1..Len(cs) : cs[i].state = "focus"} IN
    IF hits = {} THEN -1
    ELSE (CHOOSE i \in hits : \A j \in hits : i <= j) - 1

\* _moveSel without deselecting the previous panel
moveSelKeep(cs, s, i) ==
    IF s >= 0 /\ s + 1 \notin DOMAIN cs THEN Grouped(cs, s, <<>>)
    ELSE IF i + 1 \in DOMAIN cs
         THEN Grouped([cs EXCEPT ![i + 1] = setState(cs[i + 1], "select")], i, <<>>)
         ELSE Grouped(cs, i, <<>>)

\* _moveSel(i).  containers[k]!.setState on a panel that does not exist throws
\* a TypeError, which ends the handler with the writes made so far.
moveSel(cs, s, i) ==
    IF s >= 0 /\ s + 1 \notin DOMAIN cs THEN Grouped(cs, s, <<>>)
    ELSE LET off == IF s >= 0 THEN [cs EXCEPT ![s + 1] = setState(cs[s + 1], "default")]
                    ELSE cs
         IN IF i + 1 \in DOMAIN cs
            THEN Grouped([off EXCEPT ![i + 1] = setState(off[i + 1], "select")], i, <<>>)
            ELSE Grouped(off, i, <<>>)

clearSel(cs, s) ==
    IF s >= 0 /\ s + 1 \notin DOMAIN cs THEN Grouped(cs, s, <<>>)
    ELSE Grouped(IF s >= 0 THEN [cs EXCEPT ![s + 1] = setState(cs[s + 1], "default")] ELSE cs,
                 -1, <<>>)

\* containers[p].handleKey(key) has answered r: panel p is replaced, _sel stays
Delegated(cs, s, p, r) ==
    Grouped([cs EXCEPT ![p] = r.c], s, IF r.timer # 0 THEN <<p, r.timer>> ELSE <<>>)

\* handleKey without the exclusive delegation to the Active panel, moving the
\* selection without deselecting
GroupHandleKeyNoTrap(cs, s, key) ==
    LET n == key.name
        len == Len(cs)
    IN IF s = -1 THEN
           IF n = "right" \/ n = "tab"
           THEN moveSelKeep(cs, s, IF key.shift THEN len - 1 ELSE 0)
           ELSE Grouped(cs, s, <<>>)
       ELSE IF n = "return" THEN
           Delegated(cs, s, s + 1, ContainerHandleKey(cs[s + 1], key))
       ELSE IF n = "right" \/ (n = "tab" /\ ~key.shift) THEN
           moveSelKeep(cs, s, JsRem(s + 1, len))
       ELSE IF n = "left" \/ (n = "tab" /\ key.shift) THEN
           moveSelKeep(cs, s, JsRem(s - 1 + len, len))
       ELSE IF n = "escape" THEN clearSel(cs, s)
       ELSE Grouped(cs, s, <<>>)

GroupHandleKey(cs, s, key) ==
    LET focusedIdx == FocusedIdx(cs)
        n == key.name
        len == Len(cs)
    IN IF focusedIdx # -1 THEN
           Delegated(cs, s, focusedIdx + 1, ContainerHandleKey(cs[focusedIdx + 1], key))
       ELSE IF s = -1 THEN
           IF n = "right" \/ n = "tab"
           THEN moveSel(cs, s, IF key.shift THEN len - 1 ELSE 0)
           ELSE Grouped(cs, s, <<>>)
       ELSE IF n = "return" THEN
           IF s + 1 \in DOMAIN cs
           THEN Delegated(cs, s, s + 1, ContainerHandleKey(cs[s + 1], key))
           ELSE Grouped(cs, s, <<>>)
       ELSE IF n = "right" \/ (n = "tab" /\ ~key.shift) THEN
           moveSel(cs, s, JsRem(s + 1, len))
       ELSE IF n = "left" \/ (n = "tab" /\ key.shift) THEN
           moveSel(cs, s, JsRem(s - 1 + len, len))
       ELSE IF n = "escape" THEN clearSel(cs, s)
       ELSE Grouped(cs, s, <<>>)

\* ---------------------------------------------------------------- the panels checked

Text(n) == [i \in 1..n |-> "x"]
Options(n) == [i \in 1..n |-> Text(2)]

\* two labels push a two-option dropdown to the bottom of a viewport of 2 rows
PanelA == Container(12, 5, <<Label(Text(3)), Label(Text(3)), Select(8, Options(2), 0)>>)

\* a radio list taller than the viewport of 2 rows, and a button
PanelB == Container(10, 5, <<Radio(Options(3), 1), Button(6)>>)

\* no focusable child: three labels wider and taller than the viewport
PanelC == Container(8, 5, <<Label(Text(3)), Label(Text(1)), Label(Text(1))>>)

\* a multi-line editor under a label, taller than the viewport of 2 rows
PanelD == Container(10, 5, <<Label(Text(1)), Textarea(6, 4, <<>>)>>)

\* a text field and a checkbox
PanelE == Container(10, 5, <<Input(3), CheckBox(Text(2), FALSE)>>)

\* no children at all
PanelF == Container(8, 4, <<>>)

\* new ContainerGroup(containers)
Groups ==
    {<<PanelA>>, <<PanelB>>, <<PanelD>>, <<PanelE>>, <<PanelC, PanelA>>,
     <<PanelF, PanelC, PanelF>>}

\* ---------------------------------------------------------------- the state machine

Snapshot == [containers |-> containers, sel |-> sel, timers |-> timers]

\* the length of Textarea.getValue(): the characters and the line breaks
TextSize(w) == SumSeq([i \in 1..Len(w.lines) |-> Len(w.lines[i])]) + Len(w.lines) - 1

\* The bounds of the model: a key that would grow a value, an editor buffer or
\* the set of pending timers past its bound is not delivered.
WithinBounds(before, after, timer) ==
    /\ \A p \in 1..Len(before) : \A i \in 1..Len(before[p].children) :
        LET b == before[p].children[i]
            a == after[p].children[i]
        IN /\ b.kind = "input" /\ Len(a.value) > Len(b.value) => Len(a.value) <= MaxValueLen
           /\ b.kind = "textarea" /\ TextSize(a) > TextSize(b) => TextSize(a) <= MaxTextSize
    /\ timer # <<>> => BagCardinality(timers) < MaxTimers

Init ==
    /\ containers \in Groups
    /\ sel = -1
    /\ timers = EmptyBag
    /\ ev = [type |-> "init"]
    /\ pre = [containers |-> containers, sel |-> -1, timers |-> EmptyBag]

\* The handler has answered r to the event e: its writes become the next state.
Deliver(r, e) ==
    /\ WithinBounds(containers, r.containers, r.timer)
    /\ containers' = r.containers
    /\ sel' = r.sel
    /\ timers' = IF r.timer # <<>> THEN timers (+) SetToBag({r.timer}) ELSE timers
    /\ ev' = e
    /\ pre' = Snapshot

\* The dispatcher hands one key event to ContainerGroup.handleKey.
KeyEvent ==
    \E key \in Keys :
        Deliver(GroupHandleKey(containers, sel, key), [type |-> "key", key |-> key])

\* The callback of Button.handleKey's setTimeout runs.
TimerFire ==
    \E b \in BagToSet(timers) :
        /\ containers' = [containers EXCEPT ![b[1]].children[b[2]].pressed = FALSE]
        /\ timers' = timers (-) SetToBag({b})
        /\ sel' = sel
        /\ ev' = [type |-> "timer", button |-> b]
        /\ pre' = Snapshot

\* A caller hands one key event to Container.handleKey of one panel, past the group.
DirectKey ==
    \E p \in 1..Len(containers) : \E key \in Keys :
        Deliver(Delegated(containers, sel, p, ContainerHandleKey(containers[p], key)),
                [type |-> "direct", key |-> key, panel |-> p])

Next == KeyEvent \/ TimerFire

Spec == Init /\ [][Next]_vars

\* Groups without a Button, so that no timer is ever pending.
GroupsDirect == {<<PanelA>>, <<PanelE>>, <<PanelC, PanelF>>}

InitDirect ==
    /\ containers \in GroupsDirect
    /\ sel = -1
    /\ timers = EmptyBag
    /\ ev = [type |-> "init"]
    /\ pre = [containers |-> containers, sel |-> -1, timers |-> EmptyBag]

NextDirect == KeyEvent \/ DirectKey

\* the group's key events, plus keys handed to single panels
SpecDirect == InitDirect /\ [][NextDirect]_vars

\* ten one-row labels, a checkbox at cumulative offset 10, six more labels, in
\* a viewport of 5 rows
Labels(n) == [i \in 1..n |-> Label(Text(1))]

PanelG == Container(11, 8, Labels(10) \o <<CheckBox(Text(1), FALSE)>> \o Labels(6))

InitScroll ==
    /\ containers = <<PanelG>>
    /\ sel = -1
    /\ timers = EmptyBag
    /\ ev = [type |-> "init"]
    /\ pre = [containers |-> containers, sel |-> -1, timers |-> EmptyBag]

NextScroll == KeyEvent

\* the group's key events on the long panel
SpecScroll == InitScroll /\ [][NextScroll]_vars

\* Groups for the selection: no panel, one, two and three panels, no Button.
GroupsSel == {<<>>, <<PanelE>>, <<PanelC, PanelA>>, <<PanelF, PanelC, PanelF>>}

InitGroup ==
    /\ containers \in GroupsSel
    /\ sel = -1
    /\ timers = EmptyBag
    /\ ev = [type |-> "init"]
    /\ pre = [containers |-> containers, sel |-> -1, timers |-> EmptyBag]

\* ContainerGroup.handleKey(key) called n more times on the group left as r
RECURSIVE GroupHandleKeys(_, _, _)
GroupHandleKeys(r, key, n) ==
    IF n = 0 THEN r
    ELSE GroupHandleKeys(GroupHandleKey(r.containers, r.sel, key), key, n - 1)

\* the keys that move the selection
MoveKeys == {Named("right"), Named("left"), Named("tab"), Shift(Named("tab"))}

\* The dispatcher hands the same selection-moving key to the group once per panel.
KeyRound ==
    \E key \in MoveKeys :
        /\ Len(containers) >= 1
        /\ Deliver(GroupHandleKeys(Grouped(containers, sel, <<>>), key, Len(containers)),
                   [type |-> "round", key |-> key])

NextGroup == KeyEvent \/ KeyRound

\* the group's key events, one at a time and in rounds of N
SpecGroup == InitGroup /\ [][NextGroup]_vars

\* three focusable children around a label
PanelH == Container(10, 5, <<CheckBox(Text(1), FALSE), Label(Text(1)), Button(4), Input(3)>>)

\* the panels whose FocusManager is driven directly: 0, 0, 1, 2 and 3 focusables
FocusPanels == {PanelF, PanelC, PanelA, PanelE, PanelH}

\* the arguments handed to focusAt
FocusArgs == (0 - 2)..MaxFocusArg

InitFocus ==
    /\ containers \in {<<p>> : p \in FocusPanels}
    /\ sel = -1
    /\ timers = EmptyBag
    /\ ev = [type |-> "init"]
    /\ pre = [containers |-> containers, sel |-> -1, timers |-> EmptyBag]

\* a call of a FocusManager method leaves the manager and its focusables as c
FocusCall(c, e) ==
    /\ containers' = <<c>>
    /\ ev' = e
    /\ pre' = Snapshot
    /\ UNCHANGED <<sel, timers>>

FocusAtCall ==
    \E i \in FocusArgs :
        FocusCall(focusAt(containers[1], i), [type |-> "focusAt", i |-> i])

\* cycle(direction); the event counts the calls of an unbroken run of equal
\* directions, up to the number of focusables, and keeps the index the run
\* started from
CycleCall ==
    \E direction \in {1, 0 - 1} :
        LET continues == /\ ev.type = "cycle" /\ ev.direction = direction
                         /\ ev.n < Len(Focusables(containers[1]))
        IN FocusCall(cycle(containers[1], direction),
                     [type |-> "cycle", direction |-> direction,
                      n |-> IF continues THEN ev.n + 1 ELSE 1,
                      start |-> IF continues THEN ev.start ELSE containers[1].focus])

ClearCall == FocusCall(clear(containers[1]), [type |-> "clear"])

InitFirstCall == FocusCall(initFirst(containers[1]), [type |-> "initFirst"])

NextFocus == FocusAtCall \/ CycleCall \/ ClearCall \/ InitFirstCall

\* every sequence of calls of the FocusManager's methods
SpecFocus == InitFocus /\ [][NextFocus]_vars

\* the cursors, viewport sizes and maxima handed to a ScrollState
Cursors == (0 - 1)..MaxCursor
Viewports == 0..MaxViewport
Maxima == 0..MaxScroll

\* the ScrollState driven directly is the one a Container constructs
InitScrollState ==
    /\ containers = <<PanelF>>
    /\ sel = -1
    /\ timers = EmptyBag
    /\ ev = [type |-> "init"]
    /\ pre = [containers |-> containers, sel |-> -1, timers |-> EmptyBag]

\* a call of a ScrollState method leaves the offsets as s
ScrollCall(s, e) ==
    /\ containers' = [containers EXCEPT ![1].scroll = s]
    /\ ev' = e
    /\ pre' = Snapshot
    /\ UNCHANGED <<sel, timers>>

SetXCall ==
    \E value \in Cursors : \E max \in Maxima :
        ScrollCall(setX(containers[1].scroll, value, max),
                   [type |-> "setX", value |-> value, max |-> max])

SetYCall ==
    \E value \in Cursors : \E max \in Maxima :
        ScrollCall(setY(containers[1].scroll, value, max),
                   [type |-> "setY", value |-> value, max |-> max])

ClampHorizontalCall ==
    \E cursor \in Cursors : \E size \in Viewports :
        ScrollCall(clampHorizontal(containers[1].scroll, cursor, size),
                   [type |-> "clampHorizontal", cursor |-> cursor, size |-> size])

ClampVerticalCall ==
    \E cursor \in Cursors : \E size \in Viewports : \E max \in Maxima :
        ScrollCall(clampVertical(containers[1].scroll, cursor, size, max),
                   [type |-> "clampVertical", cursor |-> cursor, size |-> size,
                    max |-> max])

NextScrollState == SetXCall \/ SetYCall \/ ClampHorizontalCall \/ ClampVerticalCall

\* every sequence of calls of the ScrollState's methods
SpecScrollState == InitScrollState /\ [][NextScrollState]_vars

\* ---------------------------------------------------------------- a dropdown among other focusables

\* a dropdown followed by a check box, both inside the viewport
PanelI == Container(12, 6, <<Select(8, Options(2), 1), CheckBox(Text(1), FALSE)>>)

InitDropdown ==
    /\ containers \in {<<PanelI>>, <<PanelA>>}
    /\ sel = -1
    /\ timers = EmptyBag
    /\ ev = [type |-> "init"]
    /\ pre = [containers |-> containers, sel |-> -1, timers |-> EmptyBag]

\* the group's key events and keys handed to single panels, for panels with a dropdown
SpecDropdown == InitDropdown /\ [][NextDirect]_vars

\* ---------------------------------------------------------------- one widget, driven directly

\* A call of a method of the widget, the only child of the only panel, has
\* answered r: the widget is left as r.w, and r.timer tells that Button.handleKey
\* ran onClick and scheduled its timeout. The event keeps the number of onClick
\* and onRender calls so far and, while a dropdown is open, the index that was
\* committed when it was opened.
WidgetCall(r, e) ==
    /\ r.w.kind = "input" => Len(r.w.value) <= MaxInputLen
    /\ r.w.kind = "textarea" => TextSize(r.w) <= MaxEditorSize
    /\ r.timer => ev.clicks < MaxPresses
    /\ containers' = [containers EXCEPT ![1].children[1] = r.w]
    /\ timers' = IF r.timer THEN timers (+) SetToBag({<<1, 1>>}) ELSE timers
    /\ ev' = e @@ [consumed |-> r.consumed,
                   onClick |-> IF r.timer THEN 1 ELSE 0,
                   clicks |-> ev.clicks + (IF r.timer THEN 1 ELSE 0),
                   renders |-> ev.renders,
                   atOpen |-> IF r.w.kind # "select" THEN -1
                              ELSE IF containers[1].children[1].open THEN ev.atOpen
                              ELSE containers[1].children[1].selected]
    /\ pre' = Snapshot
    /\ sel' = sel

\* the keys handed to a widget: those of the dispatcher and the line feed
WidgetKeys == Keys \cup {Enter}

\* the strings handed to setValue
WidgetValues == {<<>>, <<"a", "b">>, <<"a", "\n", "b">>}

\* text fields of 0 and 2 visible columns, editors of 2, 1 and 0 visible rows,
\* and dropdowns and radio
\* lists of 0 to 3 options constructed with indices in and out of range
Widgets ==
    {Input(2), Input(4)}
        \cup {Textarea(4, 4, <<>>), Textarea(3, 3, << <<"a">>, <<"b">> >>),
              Textarea(4, 2, <<>>)}
        \cup {Select(8, Options(n), i) : n \in 0..3, i \in {-1, 0, 1, 4}}
        \cup {Radio(Options(n), i) : n \in 0..3, i \in {-1, 0, 1, 4}}

InitWidget ==
    /\ containers \in {<<Container(12, 6, <<w>>)>> : w \in Widgets}
    /\ sel = -1
    /\ timers = EmptyBag
    /\ ev = [type |-> "init", clicks |-> 0, renders |-> 0, atOpen |-> -1]
    /\ pre = [containers |-> containers, sel |-> -1, timers |-> EmptyBag]

\* widget.handleKey(key)
WidgetKeyCall ==
    \E key \in WidgetKeys :
        WidgetCall(handleKey(containers[1].children[1], key), [type |-> "key", key |-> key])

\* widget.setValue(v) of a text field or an editor
WidgetSetValueCall ==
    \E v \in WidgetValues :
        \/ /\ containers[1].children[1].kind = "input"
           /\ WidgetCall(Handled(InputSetValue(containers[1].children[1], v), TRUE),
                         [type |-> "setValue", value |-> v])
        \/ /\ containers[1].children[1].kind = "textarea"
           /\ WidgetCall(Handled(TextareaSetValue(containers[1].children[1], v), TRUE),
                         [type |-> "setValue", value |-> v])

NextWidget == WidgetKeyCall \/ WidgetSetValueCall

\* every sequence of keys and setValue calls on one widget
SpecWidget == InitWidget /\ [][NextWidget]_vars

\* one button
InitButton ==
    /\ containers = <<Container(12, 6, <<Button(6)>>)>>
    /\ sel = -1
    /\ timers = EmptyBag
    /\ ev = [type |-> "init", clicks |-> 0, renders |-> 0, atOpen |-> -1]
    /\ pre = [containers |-> containers, sel |-> -1, timers |-> EmptyBag]

\* the event loop runs the callback of one pending timeout
ButtonTimerFire ==
    \E b \in BagToSet(timers) :
        /\ containers' = [containers EXCEPT
               ![b[1]].children[b[2]] = ButtonTimeout(@).w]
        /\ timers' = timers (-) SetToBag({b})
        /\ ev' = [type |-> "timer", clicks |-> ev.clicks,
                  renders |-> ev.renders + ButtonTimeout(containers[b[1]].children[b[2]]).onRender,
                  atOpen |-> -1]
        /\ pre' = Snapshot
        /\ sel' = sel

NextButton == WidgetKeyCall \/ ButtonTimerFire

\* every sequence of keys on one button; a scheduled timeout fires after 120 ms
\* unless the process ends first
SpecButton == InitButton /\ [][NextButton]_vars /\ WF_vars(ButtonTimerFire)

\* ---------------------------------------------------------------- BrailleCanvas

\* BRAILLE_BITS[r][c]
BRAILLE_BITS(r, c) == << <<1, 8>>, <<2, 16>>, <<4, 32>>, <<64, 128>> >>[r + 1][c + 1]

\* new BrailleCanvas(cols, rows): pixels[py][px] and colors[py][px]
BrailleCanvas(cols, rows) ==
    [kind |-> "canvas", cols |-> cols, rows |-> rows,
     pixels |-> [py \in 0..(rows * 4 - 1) |-> [px \in 0..(cols * 2 - 1) |-> FALSE]],
     colors |-> [py \in 0..(rows * 4 - 1) |-> [px \in 0..(cols * 2 - 1) |-> "null"]]]

pixelWidth(cv) == cv.cols * 2
pixelHeight(cv) == cv.rows * 4

\* setPixel drawing a pixel outside the canvas on the nearest edge
setPixelClamped(cv, px, py, color) ==
    IF pixelWidth(cv) = 0 \/ pixelHeight(cv) = 0 THEN cv
    ELSE [cv EXCEPT
             !.pixels[Max(0, Min(py, pixelHeight(cv) - 1))][Max(0, Min(px, pixelWidth(cv) - 1))] = TRUE,
             !.colors[Max(0, Min(py, pixelHeight(cv) - 1))][Max(0, Min(px, pixelWidth(cv) - 1))] = color]

setPixel(cv, px, py, color) ==
    IF px < 0 \/ px >= pixelWidth(cv) \/ py < 0 \/ py >= pixelHeight(cv) THEN cv
    ELSE [cv EXCEPT !.pixels[py][px] = TRUE, !.colors[py][px] = color]

\* getCell(col, row): the glyph's code point and the colour of the first set
\* sub-pixel met by the loops r = 0..3, c = 0..1 ("gray" when none is set)
getCell(cv, col, row) ==
    LET IsSet(k) ==
            /\ row * 4 + (k \div 2) \in DOMAIN cv.pixels
            /\ col * 2 + (k % 2) \in DOMAIN cv.pixels[row * 4 + (k \div 2)]
            /\ cv.pixels[row * 4 + (k \div 2)][col * 2 + (k % 2)]
        found == {k \in 0..7 : IsSet(k)}
        first == CHOOSE k \in found : \A j \in found : k <= j
        c == cv.colors[row * 4 + (first \div 2)][col * 2 + (first % 2)]
    IN [ch |-> 10240 + SumSeq([k \in 1..8 |->
                   IF IsSet(k - 1) THEN BRAILLE_BITS((k - 1) \div 2, (k - 1) % 2) ELSE 0]),
        color |-> IF found = {} THEN "gray" ELSE IF c = "null" THEN "white" ELSE c]

\* setPixel called for each point of a sequence, in order
RECURSIVE SetPixels(_, _, _)
SetPixels(cv, points, color) ==
    IF points = <<>> THEN cv
    ELSE SetPixels(setPixel(cv, Head(points)[1], Head(points)[2], color), Tail(points), color)

\* the points the loop of drawLine visits from (x, y) with error term err;
\* l holds x1, y1, dx, dy, sx, sy
RECURSIVE Bresenham(_, _, _, _)
Bresenham(x, y, err, l) ==
    IF x = l.x1 /\ y = l.y1 THEN << <<x, y>> >>
    ELSE LET e2 == 2 * err
             stepX == e2 > -l.dy
             stepY == e2 < l.dx
         IN << <<x, y>> >> \o
            Bresenham(IF stepX THEN x + l.sx ELSE x,
                      IF stepY THEN y + l.sy ELSE y,
                      err - (IF stepX THEN l.dy ELSE 0) + (IF stepY THEN l.dx ELSE 0),
                      l)

Abs(n) == IF n < 0 THEN -n ELSE n

drawLine(cv, x0, y0, x1, y1, color) ==
    LET dx == Abs(x1 - x0)
        dy == Abs(y1 - y0)
    IN SetPixels(cv,
           Bresenham(x0, y0, dx - dy,
                     [x1 |-> x1, y1 |-> y1, dx |-> dx, dy |-> dy,
                      sx |-> IF x0 < x1 THEN 1 ELSE -1, sy |-> IF y0 < y1 THEN 1 ELSE -1]),
           color)

\* the points of the loops dy = -r..r, dx = -r..r with dx*dx + dy*dy <= r*r
DotPoints(cx, cy, r) ==
    LET d == 2 * r + 1
        grid == [k \in 1..(IF d > 0 THEN d * d ELSE 0) |->
                    <<((k - 1) % d) - r, ((k - 1) \div d) - r>>]
        InDisc(q) == q[1] * q[1] + q[2] * q[2] <= r * r
        disc == SelectSeq(grid, InDisc)
    IN [k \in 1..Len(disc) |-> <<cx + disc[k][1], cy + disc[k][2]>>]

drawDot(cv, cx, cy, r, color) == SetPixels(cv, DotPoints(cx, cy, r), color)

\* the points of the loops px = x..x+w-1, py = top..bottom
BarPoints(x, bottom, top, w) ==
    LET h == bottom - top + 1 IN
    [k \in 1..(IF w > 0 /\ h > 0 THEN w * h ELSE 0) |->
        <<x + ((k - 1) \div h), top + ((k - 1) % h)>>]

drawBar(cv, x, bottom, top, w, color) == SetPixels(cv, BarPoints(x, bottom, top, w), color)

\* ---------------------------------------------------------------- BarChart

PALETTE == <<"cyan", "yellow", "green", "magenta", "red", "blue", "white">>

\* new BarChart(width, height, values, labels)
BarChart(width, height, values) ==
    [kind |-> "barchart", width |-> width, height |-> height, values |-> values,
     canvas |-> BrailleCanvas(width - 2, height - 3), dirty |-> TRUE]

barPx(pw, n) == Max(1, pw \div (n * 2))
gapPx(pw, n) == Max(0, (pw - barPx(pw, n) * n) \div (n + 1))

\* Math.round((value / _max) * (ph - 1)) for whole values >= 0, where
\* _max = Math.max(...values, 0.001): with no value above 0 every quotient is 0
barH(value, max, ph) ==
    IF max = 0 THEN 0 ELSE (2 * value * (ph - 1) + max) \div (2 * max)

\* the loop of _render from bar i (0-based), the canvas being cv
RECURSIVE DrawBars(_, _, _)
DrawBars(cv, values, i) ==
    IF i >= Len(values) THEN cv
    ELSE LET pw == pixelWidth(cv)
             ph == pixelHeight(cv)
             n == Len(values)
             x == gapPx(pw, n) + i * (barPx(pw, n) + gapPx(pw, n))
             top == ph - 1 - barH(values[i + 1], MaxSeq(values), ph)
         IN DrawBars(drawBar(cv, x, ph - 1, top, barPx(pw, n),
                             PALETTE[(i % Len(PALETTE)) + 1]),
                     values, i + 1)

\* _render()
BarChartRender(ch) ==
    IF ~ch.dirty THEN ch
    ELSE [ch EXCEPT !.dirty = FALSE,
                    !.canvas = DrawBars(BrailleCanvas(@.cols, @.rows), ch.values, 0)]

\* ---------------------------------------------------------------- a canvas or a chart, driven directly

\* the sequences over S of length at most n
RECURSIVE SeqsUpTo(_, _)
SeqsUpTo(S, n) ==
    IF n = 0 THEN {<<>>}
    ELSE SeqsUpTo(S, n - 1) \cup {Append(q, v) : q \in SeqsUpTo(S, n - 1), v \in S}

\* a canvas of two cells side by side, or a bar chart of one row of cells
InitCanvas ==
    /\ containers \in
           {<<BrailleCanvas(2, 1)>>}
               \cup {<<BarChart(width, 4, values)>> :
                        width \in 2..MaxChartWidth,
                        values \in SeqsUpTo(0..MaxBarValue, MaxBars)}
    /\ sel = -1
    /\ timers = EmptyBag
    /\ ev = [type |-> "init", draws |-> 0]
    /\ pre = [containers |-> containers, sel |-> -1, timers |-> EmptyBag]

\* a method of the canvas or chart has left it as o
CanvasCall(o, e) ==
    /\ containers' = <<o>>
    /\ ev' = e
    /\ pre' = Snapshot
    /\ UNCHANGED <<sel, timers>>

\* canvas.setPixel(px, py, color), inside the canvas and one pixel around it
SetPixelCall ==
    \E px \in -1..4, py \in -1..4, color \in {"red", "blue"} :
        /\ containers[1].kind = "canvas" /\ ev.draws < MaxDraws
        /\ CanvasCall(setPixel(containers[1], px, py, color),
                      [type |-> "setPixel", px |-> px, py |-> py, color |-> color,
                       draws |-> ev.draws + 1])

\* canvas.drawLine(x0, y0, x1, y1, color) for lines that cross the edges
DrawLineCall ==
    \E l \in {<<-1, -1, 2, 2>>, <<0, 3, 5, 3>>, <<3, 5, 3, 2>>, <<1, 1, 2, 3>>} :
        /\ containers[1].kind = "canvas" /\ ev.draws < MaxDraws
        /\ CanvasCall(drawLine(containers[1], l[1], l[2], l[3], l[4], "green"),
                      [type |-> "drawLine", points |-> { <<l[1], l[2]>>, <<l[3], l[4]>> },
                       color |-> "green", draws |-> ev.draws + 1])

\* canvas.drawDot(cx, cy, r, color) in a corner, on the edge and inside
DrawDotCall ==
    \E c \in {<<0, 0>>, <<4, 2>>, <<2, 2>>}, r \in 0..1 :
        /\ containers[1].kind = "canvas" /\ ev.draws < MaxDraws
        /\ CanvasCall(drawDot(containers[1], c[1], c[2], r, "cyan"),
                      [type |-> "drawDot", cx |-> c[1], cy |-> c[2], r |-> r,
                       color |-> "cyan", draws |-> ev.draws + 1])

\* canvas.drawBar(x, bottom, top, w, color)
DrawBarCall ==
    \E x \in {-1, 3}, top \in {-1, 2}, w \in {0, 2} :
        /\ containers[1].kind = "canvas" /\ ev.draws < MaxDraws
        /\ CanvasCall(drawBar(containers[1], x, 3, top, w, "yellow"),
                      [type |-> "drawBar", x |-> x, bottom |-> 3, top |-> top, w |-> w,
                       color |-> "yellow", draws |-> ev.draws + 1])

\* the first renderLine of a chart runs _render()
RenderCall ==
    /\ containers[1].kind = "barchart" /\ containers[1].dirty
    /\ CanvasCall(BarChartRender(containers[1]), [type |-> "render", draws |-> 0])

NextCanvas == SetPixelCall \/ DrawLineCall \/ DrawDotCall \/ DrawBarCall \/ RenderCall

SpecCanvas == InitCanvas /\ [][NextCanvas]_vars

\* ---------------------------------------------------------------- reading a step

\* the last step handed a key to the group or to a panel
IsKey == ev.type \in {"key", "direct"}

ActivePanels(cs) == {i \in 1..Len(cs) : cs[i].state = "focus"}

\* the first Active panel (1-based), 0 for none
ActivePanel(cs) ==
    IF ActivePanels(cs) = {} THEN 0
    ELSE CHOOSE i \in ActivePanels(cs) : \A j \in ActivePanels(cs) : i <= j

\* The panel (1-based) whose handleKey the last step called, 0 for none.
Receiver ==
    IF ev.type = "direct" THEN ev.panel
    ELSE IF ev.type = "key" THEN
        IF ActivePanel(pre.containers) # 0 THEN ActivePanel(pre.containers)
        ELSE IF pre.sel # -1 /\ ev.key.name = "return" THEN pre.sel + 1
        ELSE 0
    ELSE 0

Before == pre.containers[Receiver]
After == containers[Receiver]

\* the focused child of the receiving panel reported the key as consumed
ChildConsumed ==
    /\ Current(Before) # 0
    /\ handleKey(Before.children[Current(Before)], ev.key).consumed

\* an Active panel received a key that no child consumed
PanelGotKey == IsKey /\ Receiver # 0 /\ Before.state = "focus" /\ ~ChildConsumed

RowVisible(c, row) == c.scroll.y <= row /\ row < c.scroll.y + ih(c)

\* the row the child at position p asks to keep visible
HintRow(c, p) == LineOffset(c, p) + activeLineHint(c.children[p])

\* the child's first row or the row it asks for is inside the viewport
ChildInView(c, p) == RowVisible(c, LineOffset(c, p)) \/ RowVisible(c, HintRow(c, p))

\* the children of c other than the one at position p are as in d
OthersUnchanged(c, d, p) ==
    /\ Len(c.children) = Len(d.children)
    /\ \A i \in 1..Len(c.children) : i # p => c.children[i] = d.children[i]

\* ---------------------------------------------------------------- claims

\* C1: after any sequence of key events delivered to the group, at most one
\* panel is in Active mode.
C1_AtMostOneActive == Cardinality(ActivePanels(containers)) <= 1

\* a key reached an Active panel of a group of several panels
C1_Witness ==
    /\ ev.type = "key" /\ Len(containers) >= 2
    /\ ActivePanels(containers) # {} /\ ActivePanels(pre.containers) # {}

\* C2: while a panel is Active, a key delivered to the group leaves the
\* selection index and every other panel (mode, scroll, focus index, children)
\* unchanged.
C2_ActivePanelTrapsKeys ==
    ev.type = "key" /\ ActivePanel(pre.containers) # 0 =>
        /\ sel = pre.sel
        /\ Len(containers) = Len(pre.containers)
        /\ \A i \in 1..Len(containers) :
            i # ActivePanel(pre.containers) => containers[i] = pre.containers[i]

\* an arrow key, which would move the selection, changed the Active panel of a
\* group of several panels
C2_Witness ==
    /\ ev.type = "key" /\ ActivePanel(pre.containers) # 0 /\ Len(containers) >= 2
    /\ ev.key.name = "right"
    /\ containers[ActivePanel(pre.containers)] # pre.containers[ActivePanel(pre.containers)]

\* C3: when the focused child of an Active panel consumes the key, the panel
\* stays Active with the same focus index and the same focused child, no other
\* child and no horizontal scroll changes: only the vertical auto-scroll may move.
C3_ConsumedKeyStopsAtChild ==
    IsKey /\ Receiver # 0 /\ Before.state = "focus" /\ ChildConsumed =>
        /\ After.state = "focus"
        /\ After.focus = Before.focus
        /\ After.children[Current(Before)]
               = handleKey(Before.children[Current(Before)], ev.key).w
        /\ After.children[Current(Before)].focused
        /\ OthersUnchanged(After, Before, Current(Before))
        /\ After.scroll.x = Before.scroll.x
        /\ After.style = Before.style

\* an open dropdown consumed Escape and closed; the panel kept it focused
C3_Witness ==
    /\ ev.type = "key" /\ Receiver # 0 /\ Before.state = "focus" /\ ChildConsumed
    /\ ev.key.name = "escape"
    /\ Before.children[Current(Before)].kind = "select"
    /\ Before.children[Current(Before)].open
    /\ ~After.children[Current(Before)].open
    /\ After.focus = Before.focus /\ After.state = "focus"

\* C4: an Escape that no child consumes clears the child focus and leaves the
\* panel Active when a child is focused; with no child focused it moves the
\* panel to Selected.
C4_EscapeZoomsOutOneLevel ==
    PanelGotKey /\ ev.key.name = "escape" =>
        IF Before.focus >= 0
        THEN /\ After.state = "focus"
             /\ After.focus = -1
             /\ \A i \in 1..Len(After.children) :
                    IsFocusable(After.children[i]) => ~After.children[i].focused
        ELSE /\ After.state = "select"
             /\ After.focus = -1

\* Escape reached an Active panel whose focused child did not consume it
C4_Witness ==
    /\ PanelGotKey /\ ev.key.name = "escape" /\ Before.focus >= 0
    /\ Before.children[Current(Before)].focused
    /\ After.state = "focus" /\ After.focus = -1

\* C5: with N >= 1 focusable children, a Tab that no child consumes moves the
\* focus index to (index + 1) mod N, Shift+Tab to (index - 1) mod N; afterwards
\* exactly the child at the new index is focused, a dropdown that lost the
\* focus is closed, and the new child's first row or hint row is in the viewport.
C5_TabCyclesFocus ==
    PanelGotKey /\ ev.key.name = "tab" /\ Len(Focusables(Before)) >= 1 =>
        LET N == Len(Focusables(Before))
            dir == IF ev.key.shift THEN -1 ELSE 1
            new == Focusables(Before)[After.focus + 1]
        IN /\ After.focus = (Before.focus + dir + N) % N
           /\ After.state = "focus"
           /\ \A i \in 1..Len(After.children) :
                  IsFocusable(After.children[i]) => (After.children[i].focused <=> i = new)
           /\ Before.focus >= 0 /\ Current(Before) # new =>
                  After.children[Current(Before)] = blur(Before.children[Current(Before)])
           /\ ChildInView(After, new)

\* Shift+Tab wrapped from the first focusable child to the last of several,
\* and the panel scrolled
C5_Witness ==
    /\ PanelGotKey /\ ev.key.name = "tab" /\ ev.key.shift
    /\ Len(Focusables(Before)) >= 2
    /\ Before.focus = 0 /\ After.focus = Len(Focusables(Before)) - 1
    /\ After.scroll # Before.scroll

\* C6: Return received by a Selected panel makes it Active; with focusable
\* children and none focused, the first one gains focus (no other child
\* changes) and its first row or hint row is in the viewport.  Any other key
\* received in Selected mode leaves the panel as it was.
C6_ReturnActivatesSelected ==
    IsKey /\ Receiver # 0 /\ Before.state = "select" =>
        IF ev.key.name = "return" THEN
            LET f == Focusables(Before) IN
            /\ After.state = "focus"
            /\ After.scroll.x = Before.scroll.x
            /\ Len(f) >= 1 /\ Before.focus < 0 =>
                   /\ After.focus = 0
                   /\ After.children[f[1]] = focus(Before.children[f[1]])
                   /\ OthersUnchanged(After, Before, f[1])
                   /\ ChildInView(After, f[1])
            /\ Len(f) = 0 => After = [Before EXCEPT !.state = "focus"]
        ELSE After = Before

\* the group forwarded Return to the selected panel, whose first focusable
\* child gained focus and was scrolled to
C6_Witness ==
    /\ ev.type = "key" /\ Receiver # 0 /\ Before.state = "select"
    /\ ev.key.name = "return"
    /\ After.state = "focus" /\ After.focus = 0
    /\ After.children[Focusables(Before)[1]].focused
    /\ After.scroll.y > Before.scroll.y

\* C7: a panel in Default mode is inert: whatever key its handleKey receives,
\* its mode, scroll offset, focus index and children are unchanged.
C7_DefaultPanelInert ==
    ev.type = "direct" /\ Before.state = "default" =>
        /\ After = Before
        /\ containers = pre.containers
        /\ sel = pre.sel

\* Return was handed to a Default panel that has a focusable child
C7_Witness ==
    /\ ev.type = "direct" /\ Before.state = "default"
    /\ ev.key.name = "return"
    /\ Focusables(Before) # <<>>
    /\ After.state = "default"

Clamp(v, lo, hi) == IF v < lo THEN lo ELSE IF v > hi THEN hi ELSE v

\* C8: an arrow key that reaches an Active panel scrolls its viewport by one
\* step, clamped to [0, max], when no child is focused, and changes nothing
\* else; when a child is focused and does not consume it, the scroll offset is
\* unchanged.
C8_ArrowsScrollOnlyWithoutFocus ==
    PanelGotKey /\ ev.key.name \in {"up", "down", "left", "right"} =>
        IF Before.focus < 0 THEN
            LET n == ev.key.name
                x == IF n = "left" THEN Clamp(Before.scroll.x - 1, 0, maxScrollX(Before))
                     ELSE IF n = "right" THEN Clamp(Before.scroll.x + 1, 0, maxScrollX(Before))
                     ELSE Before.scroll.x
                y == IF n = "up" THEN Clamp(Before.scroll.y - 1, 0, maxScrollY(Before))
                     ELSE IF n = "down" THEN Clamp(Before.scroll.y + 1, 0, maxScrollY(Before))
                     ELSE Before.scroll.y
            IN After = [Before EXCEPT !.scroll = [x |-> x, y |-> y]]
        ELSE After.scroll = Before.scroll

\* Up at the top of an Active panel with no focused child left the offset at 0
C8_Witness ==
    /\ PanelGotKey /\ ev.key.name = "up" /\ Before.focus < 0
    /\ Before.scroll.y = 0 /\ After.scroll.y = 0 /\ maxScrollY(Before) > 0

\* C9: after every key event handled by a panel, 0 <= scrollY <= maxScrollY and
\* 0 <= scrollX <= maxScrollX, the maxima taken on the state after the key.
C9_ScrollWithinRange ==
    IsKey /\ Receiver # 0 =>
        /\ 0 <= After.scroll.y /\ After.scroll.y <= maxScrollY(After)
        /\ 0 <= After.scroll.x /\ After.scroll.x <= maxScrollX(After)

\* the panel's auto-scroll ran for its focused child in the last step:
\* on entering Active, on Tab, or after a consumed key
AutoScrolled ==
    /\ IsKey /\ Receiver # 0 /\ Current(After) # 0
    /\ \/ Before.state = "select" /\ ev.key.name = "return"
       \/ Before.state = "focus" /\ (ChildConsumed \/ ev.key.name = "tab")

AutoScrolledToTen ==
    /\ AutoScrolled /\ ih(After) = 5
    /\ LineOffset(After, Current(After)) = 10
    /\ activeLineHint(After.children[Current(After)]) = 0

NoneActive == ActivePanels(pre.containers) = {}

\* the panels of cs with the panel at index off (if any) made Default and then
\* the panel at index on made Selected
Reselected(cs, off, on) ==
    [i \in 1..Len(cs) |->
        [cs[i] EXCEPT !.state = IF i = on + 1 THEN "select"
                                ELSE IF i = off + 1 THEN "default" ELSE @]]

\* C12: after any sequence of key events delivered to the group the selection
\* index is in [-1, N-1]; if it is -1 every panel is in Default mode, otherwise
\* exactly the panel at the selection index is not in Default mode.
C12_SelectionMatchesModes ==
    /\ sel \in -1..(Len(containers) - 1)
    /\ \A i \in 1..Len(containers) : (containers[i].state # "default") <=> (i = sel + 1)

\* a selection in [0, N-1] of a group of N >= 1 panels, none of them Active
Selected == ev.type \in {"key", "round"} /\ NoneActive /\ pre.sel \in 0..(Len(pre.containers) - 1)

\* C13: with a selection at index s in a group of N panels and no Active
\* panel, Right or Tab without shift moves the selection to (s+1) mod N, Left
\* or Shift+Tab to (s-1) mod N, the previously selected panel becomes Default
\* and the new one Selected; N consecutive advances return to s.
C13_SelectionCycles ==
    Selected =>
        LET N == Len(pre.containers)
            n == ev.key.name
            fwd == n = "right" \/ (n = "tab" /\ ~ev.key.shift)
            back == n = "left" \/ (n = "tab" /\ ev.key.shift)
        IN /\ ev.type = "key" /\ fwd =>
               /\ sel = (pre.sel + 1) % N
               /\ containers = Reselected(pre.containers, pre.sel, sel)
           /\ ev.type = "key" /\ back =>
               /\ sel = (pre.sel - 1) % N
               /\ containers = Reselected(pre.containers, pre.sel, sel)
           /\ ev.type = "round" =>
               /\ sel = pre.sel
               /\ containers = pre.containers

\* Left wrapped the selection from the first of three panels to the last
C13_Witness ==
    /\ Selected /\ ev.type = "key" /\ ev.key.name = "left"
    /\ Len(containers) = 3 /\ pre.sel = 0 /\ sel = 2
    /\ pre.containers[1].state = "select" /\ containers[1].state = "default"
    /\ containers[3].state = "select"

\* three Tabs in a row took the selection of three panels from 1 back to 1
C13_RoundWitness ==
    /\ Selected /\ ev.type = "round" /\ ev.key.name = "tab" /\ ~ev.key.shift
    /\ Len(containers) = 3 /\ pre.sel = 1 /\ sel = 1

\* C14: when no panel is Active and nothing is selected, Right or Tab
\* establishes the selection at index 0, except Shift+Tab, which establishes it
\* at the last index; the chosen panel becomes Selected; every other key leaves
\* the group and all panels unchanged.
C14_FirstSelection ==
    ev.type = "key" /\ NoneActive /\ pre.sel = -1 /\ Len(pre.containers) >= 1 =>
        IF ev.key.name \in {"right", "tab"} THEN
            /\ sel = IF ev.key.name = "tab" /\ ev.key.shift
                     THEN Len(pre.containers) - 1 ELSE 0
            /\ containers = Reselected(pre.containers, -1, sel)
        ELSE /\ sel = pre.sel
             /\ containers = pre.containers

\* the last step called a method of the FocusManager
IsFocusCall == ev.type \in {"focusAt", "cycle", "clear", "initFirst"}

\* C15: after any sequence of focusAt(i), cycle(+1/-1), clear() and initFirst()
\* on a list of N >= 0 focusables the focus index is in [-1, N-1], and focusAt
\* leaves i clamped into [0, N-1].
C15_FocusIndexInRange ==
    LET N == Len(Focusables(containers[1]))
        idx == containers[1].focus
    IN /\ idx \in (0 - 1)..(N - 1)
       /\ ev.type = "focusAt" => idx = Clamp(ev.i, 0, N - 1)

\* C16: in every sequence of focusAt, cycle, clear and initFirst calls the
\* enter-focus and leave-focus calls are paired: a target other than the
\* current one is never left in focus, the previous target has received
\* leave-focus when a different target receives enter-focus, and a target that
\* receives enter-focus was not in focus (it was never entered, or it was left,
\* at the latest by the same call).
C16_FocusPaired ==
    IsFocusCall =>
        LET b == pre.containers[1]
            c == containers[1]
            old == Current(b)
            new == Current(c)
        IN /\ \A p \in 1..Len(c.children) :
                  IsFocusable(c.children[p]) => (c.children[p].focused <=> p = new)
           /\ old # 0 /\ old # new => c.children[old] = blur(b.children[old])
           /\ new # 0 /\ new # old =>
                  /\ ~b.children[new].focused
                  /\ c.children[new] = focus(b.children[new])
           /\ new # 0 /\ new = old =>
                  c.children[new] = IF ev.type = "initFirst" THEN b.children[new]
                                    ELSE focus(blur(b.children[new]))
           /\ \A p \in 1..Len(c.children) :
                  p \notin {old, new} => c.children[p] = b.children[p]

\* focusAt moved the focus from the first of three focusables to the last
C16_Witness ==
    /\ ev.type = "focusAt"
    /\ Len(Focusables(containers[1])) = 3
    /\ pre.containers[1].focus = 0 /\ containers[1].focus = 2
    /\ pre.containers[1].children[Current(pre.containers[1])].focused
    /\ ~containers[1].children[Current(pre.containers[1])].focused
    /\ containers[1].children[Current(containers[1])].focused

\* C17 as stated: over N >= 1 focusables, N calls of cycle(+1), or of
\* cycle(-1), return the index to the value it had before the first call, for
\* every value it can hold, -1 included.
C17_CycleReturns ==
    ev.type = "cycle" /\ ev.n = Len(Focusables(containers[1])) =>
        containers[1].focus = ev.start

\* C17, amended: over N >= 1 focusables, N calls of cycle(+1), or of
\* cycle(-1), return the index to the value it had before the first call
\* whenever that value is an index of a focusable, 0..N-1.
C17_CycleReturnsFromFocus ==
    ev.type = "cycle" /\ ev.n = Len(Focusables(containers[1])) /\ ev.start >= 0 =>
        containers[1].focus = ev.start

\* three calls of cycle(-1) over three focusables, started at index 1, ended at 1
C17_Witness ==
    /\ ev.type = "cycle" /\ ev.direction = 0 - 1 /\ ev.n = 3
    /\ Len(Focusables(containers[1])) = 3
    /\ ev.start = 1 /\ containers[1].focus = 1

\* C18 as stated: after every call clampHorizontal(cursor, w),
\* x <= cursor <= x + w - 1 and x >= 0.
C18_CursorInViewport ==
    ev.type = "clampHorizontal" =>
        LET x == containers[1].scroll.x IN
        /\ x <= ev.cursor /\ ev.cursor <= x + ev.size - 1
        /\ x >= 0

\* C18, amended: after every call clampHorizontal(cursor, w) with cursor >= 0
\* and w >= 1, x <= cursor <= x + w - 1 and x >= 0; after every call x >= 0.
C18_CursorInViewportIfPossible ==
    ev.type = "clampHorizontal" =>
        LET x == containers[1].scroll.x IN
        /\ x >= 0
        /\ ev.cursor >= 0 /\ ev.size >= 1 =>
               x <= ev.cursor /\ ev.cursor <= x + ev.size - 1

\* a cursor right of a viewport of 2 columns pulled the offset to cursor - 1
C18_Witness ==
    /\ ev.type = "clampHorizontal" /\ ev.size = 2 /\ ev.cursor = 3
    /\ pre.containers[1].scroll.x = 0 /\ containers[1].scroll.x = 2

\* the offset that moves least: unchanged with the cursor inside
\* [offset, offset + size - 1], the cursor when it is before, cursor - size + 1
\* when it is after
MinimalDisplacement(offset, cursor, size) ==
    IF cursor < offset THEN cursor
    ELSE IF cursor > offset + size - 1 THEN cursor - size + 1
    ELSE offset

\* C19 as stated: clampHorizontal and clampVertical leave the offset unchanged
\* when the cursor is inside the viewport, make it the cursor when the cursor is
\* before the viewport and cursor - size + 1 when it is after.
C19_MinimalDisplacement ==
    /\ ev.type = "clampHorizontal" =>
           containers[1].scroll.x
               = MinimalDisplacement(pre.containers[1].scroll.x, ev.cursor, ev.size)
    /\ ev.type = "clampVertical" =>
           containers[1].scroll.y
               = MinimalDisplacement(pre.containers[1].scroll.y, ev.cursor, ev.size)

\* C19, amended: for a cursor >= 0 and a viewport of size >= 1, clampHorizontal
\* leaves the offset of minimal displacement, and clampVertical leaves that
\* offset capped at maxScroll; neither changes the other axis.
C19_MinimalDisplacementCapped ==
    ev.type \in {"clampHorizontal", "clampVertical"} /\ ev.cursor >= 0 /\ ev.size >= 1 =>
        /\ ev.type = "clampHorizontal" =>
               /\ containers[1].scroll.x
                      = MinimalDisplacement(pre.containers[1].scroll.x, ev.cursor, ev.size)
               /\ containers[1].scroll.y = pre.containers[1].scroll.y
        /\ ev.type = "clampVertical" =>
               /\ containers[1].scroll.y
                      = Min(MinimalDisplacement(pre.containers[1].scroll.y, ev.cursor, ev.size),
                            ev.max)
               /\ containers[1].scroll.x = pre.containers[1].scroll.x

\* a cursor above a viewport of 2 rows pulled the offset up to the cursor's row
C19_Witness ==
    /\ ev.type = "clampVertical" /\ ev.size = 2 /\ ev.cursor = 1 /\ ev.max = 2
    /\ pre.containers[1].scroll.y = 2 /\ containers[1].scroll.y = 1

\* a single character that is neither a control key nor modified by Ctrl/Meta
Printable(key) ==
    /\ Len(key.sequence) = 1 /\ ~key.ctrl /\ ~key.meta
    /\ key.name \notin {"return", "escape", "tab", "backspace"}

\* the keys each leaf widget acts on, state by state (the table of key behaviour)
Recognised(w, key) ==
    CASE w.kind = "input" ->
             key.name \in {"left", "right", "home", "end", "backspace", "delete"}
                 \/ Printable(key)
      [] w.kind = "textarea" ->
             key.name \in {"left", "right", "up", "down", "home", "end", "backspace",
                           "delete", "return"}
                 \/ Printable(key)
      [] w.kind = "select" ->
             IF w.open THEN key.name \in {"up", "down", "return", "escape"}
             ELSE key.name \in {"return", "space"}
      [] w.kind = "radio" -> key.name \in {"up", "down", "return", "space"}
      [] w.kind = "checkbox" -> key.name \in {"return", "space"}
      [] w.kind = "button" -> key.name \in {"return", "space"}

\* C20: no leaf widget, in any of its states, reports Tab or Shift+Tab as
\* consumed; a key a widget does not recognise is reported as not consumed;
\* and a key reported as not consumed leaves the widget unchanged and starts
\* no timer.
C20_TabNeverConsumed ==
    \A p \in 1..Len(containers) : \A i \in 1..Len(containers[p].children) :
        LET w == containers[p].children[i] IN
        IsFocusable(w) =>
            \A key \in Keys :
                /\ key.name = "tab" => ~handleKey(w, key).consumed
                /\ ~Recognised(w, key) => ~handleKey(w, key).consumed
                /\ ~handleKey(w, key).consumed =>
                       handleKey(w, key).w = w /\ ~handleKey(w, key).timer

\* Tab reached an open dropdown, which did not consume it: the panel cycled the
\* focus and the dropdown closed
C20_Witness ==
    /\ PanelGotKey /\ ev.key.name = "tab" /\ Current(Before) # 0
    /\ Before.children[Current(Before)].kind = "select"
    /\ Before.children[Current(Before)].open
    /\ ~After.children[Current(Before)].open

\* the widget driven directly, after and before the last call
TheWidget == containers[1].children[1]
OldWidget == pre.containers[1].children[1]

\* C21: in a text field, a printable character ch typed at cursor c in value v
\* yields v[0:c] + ch + v[c:] and cursor c+1; Backspace with c > 0 yields
\* v[0:c-1] + v[c:] and cursor c-1; Backspace on an empty value changes
\* nothing and the cursor stays at 0.
C21_InputEdits ==
    ev.type = "key" /\ TheWidget.kind = "input" =>
        LET v == OldWidget.value
            c == OldWidget.cursor
        IN /\ Printable(ev.key) =>
                  /\ TheWidget.value = SubSeq(v, 1, c) \o ev.key.sequence
                                           \o SubSeq(v, c + 1, Len(v))
                  /\ TheWidget.cursor = c + 1
           /\ ev.key.name = "backspace" /\ c > 0 =>
                  /\ TheWidget.value = SubSeq(v, 1, c - 1) \o SubSeq(v, c + 1, Len(v))
                  /\ TheWidget.cursor = c - 1
           /\ ev.key.name = "backspace" /\ v = <<>> =>
                  /\ TheWidget.value = <<>>
                  /\ TheWidget.cursor = 0

\* "a" was typed between the two characters of "ab"
C21_Witness ==
    /\ ev.type = "key" /\ TheWidget.kind = "input" /\ ev.key = Char("a")
    /\ OldWidget.value = <<"a", "b">> /\ OldWidget.cursor = 1
    /\ TheWidget.value = <<"a", "a", "b">> /\ TheWidget.cursor = 2

\* C22 as stated: after any sequence of key events and setValue calls on a text
\* field, 0 <= cursor <= length(value) and
\* 0 <= scrollX <= cursor <= scrollX + (width - 2) - 1.
C22_InputCursorVisible ==
    ev.type \in {"key", "setValue"} /\ TheWidget.kind = "input" =>
        /\ 0 <= TheWidget.cursor /\ TheWidget.cursor <= Len(TheWidget.value)
        /\ 0 <= TheWidget.scroll.x /\ TheWidget.scroll.x <= TheWidget.cursor
        /\ TheWidget.cursor <= TheWidget.scroll.x + (TheWidget.width - 2) - 1

\* C22, amended: after any sequence of key events and setValue calls on a text
\* field, 0 <= cursor <= length(value) and scrollX >= 0; when the field has at
\* least one visible column (width >= 3),
\* scrollX <= cursor <= scrollX + (width - 2) - 1.
C22_InputCursorVisibleIfWide ==
    ev.type \in {"key", "setValue"} /\ TheWidget.kind = "input" =>
        /\ 0 <= TheWidget.cursor /\ TheWidget.cursor <= Len(TheWidget.value)
        /\ 0 <= TheWidget.scroll.x
        /\ TheWidget.width >= 3 =>
               /\ TheWidget.scroll.x <= TheWidget.cursor
               /\ TheWidget.cursor <= TheWidget.scroll.x + (TheWidget.width - 2) - 1

\* Left moved the cursor out of the left edge of a scrolled field of two
\* columns, and the scroll followed
C22_Witness ==
    /\ ev.type = "key" /\ TheWidget.kind = "input" /\ ev.key.name = "left"
    /\ TheWidget.width = 4
    /\ OldWidget.scroll.x = 2 /\ OldWidget.cursor = 2
    /\ TheWidget.cursor = 1 /\ TheWidget.scroll.x = 1

\* C23: after any sequence of key events and setValue calls on the multi-line
\* editor, the line list is non-empty, 0 <= cursor row < number of lines and
\* 0 <= cursor column <= length of the line at the cursor row; Up and Down
\* clamp the column, Left and Right wrap to the adjacent line.
C23_EditorCursorInBuffer ==
    TheWidget.kind = "textarea" =>
        /\ Len(TheWidget.lines) >= 1
        /\ 0 <= TheWidget.cursorRow /\ TheWidget.cursorRow < Len(TheWidget.lines)
        /\ 0 <= TheWidget.cursorCol
        /\ TheWidget.cursorCol <= Len(TheWidget.lines[TheWidget.cursorRow + 1])
        /\ ev.type = "key" =>
               LET row == OldWidget.cursorRow
                   col == OldWidget.cursorCol
                   lines == OldWidget.lines
               IN /\ ev.key.name = "up" /\ row > 0 =>
                         /\ TheWidget.cursorRow = row - 1
                         /\ TheWidget.cursorCol = Min(col, Len(lines[row]))
                  /\ ev.key.name = "down" /\ row < Len(lines) - 1 =>
                         /\ TheWidget.cursorRow = row + 1
                         /\ TheWidget.cursorCol = Min(col, Len(lines[row + 2]))
                  /\ ev.key.name = "left" /\ col = 0 /\ row > 0 =>
                         /\ TheWidget.cursorRow = row - 1
                         /\ TheWidget.cursorCol = Len(lines[row])
                  /\ ev.key.name = "right" /\ col = Len(lines[row + 1])
                        /\ row < Len(lines) - 1 =>
                         /\ TheWidget.cursorRow = row + 1
                         /\ TheWidget.cursorCol = 0

\* Up from the end of a line of two characters clamped the column to the
\* empty line above
C23_Witness ==
    /\ TheWidget.kind = "textarea" /\ ev.type = "key" /\ ev.key.name = "up"
    /\ OldWidget.cursorRow = 1 /\ OldWidget.cursorCol = 2
    /\ TheWidget.cursorRow = 0 /\ TheWidget.cursorCol = 0
    /\ Len(TheWidget.lines[1]) = 0 /\ Len(TheWidget.lines[2]) = 2

\* C24: in the multi-line editor, Return at (row, col) replaces the line at row
\* by line[0:col], inserts line[col:] as a new line directly after it, leaves
\* all other lines unchanged, and moves the cursor to (row+1, 0).
C24_ReturnSplitsLine ==
    TheWidget.kind = "textarea" /\ ev.type = "key" /\ ev.key.name = "return" =>
        LET row == OldWidget.cursorRow
            col == OldWidget.cursorCol
            lines == OldWidget.lines
            line == lines[row + 1]
        IN /\ Len(TheWidget.lines) = Len(lines) + 1
           /\ TheWidget.lines[row + 1] = SubSeq(line, 1, col)
           /\ TheWidget.lines[row + 2] = SubSeq(line, col + 1, Len(line))
           /\ \A i \in 1..row : TheWidget.lines[i] = lines[i]
           /\ \A i \in (row + 2)..Len(lines) : TheWidget.lines[i + 1] = lines[i]
           /\ TheWidget.cursorRow = row + 1
           /\ TheWidget.cursorCol = 0

\* Return between the two characters of a line
C24_Witness ==
    /\ TheWidget.kind = "textarea" /\ ev.type = "key" /\ ev.key.name = "return"
    /\ OldWidget.lines = << <<"a", "b">> >>
    /\ OldWidget.cursorRow = 0 /\ OldWidget.cursorCol = 1
    /\ TheWidget.lines = << <<"a">>, <<"b">> >>
    /\ TheWidget.cursorRow = 1 /\ TheWidget.cursorCol = 0

\* C25: for every buffer of the multi-line editor reachable by key events,
\* including every single-character key the editor inserts, splitting
\* getValue() on the line separator reproduces the same line list.
C25_EditorRoundTrip ==
    TheWidget.kind = "textarea" => SplitLines(TextareaGetValue(TheWidget)) = TheWidget.lines

\* C26: in the multi-line editor, Backspace at column 0 of row r > 0 replaces
\* rows r-1 and r by their concatenation and puts the cursor at (r-1, old length
\* of row r-1); Delete at the end of row r, not the last row, replaces rows r
\* and r+1 by their concatenation and leaves the cursor in place; Backspace at
\* (0,0) and Delete at the end of the last line change nothing.
C26_JoinLines ==
    TheWidget.kind = "textarea" /\ ev.type = "key" =>
        LET row == OldWidget.cursorRow
            col == OldWidget.cursorCol
            lines == OldWidget.lines
        IN /\ ev.key.name = "backspace" /\ col = 0 /\ row > 0 =>
                  /\ TheWidget.lines = SubSeq(lines, 1, row - 1)
                                           \o <<lines[row] \o lines[row + 1]>>
                                           \o SubSeq(lines, row + 2, Len(lines))
                  /\ TheWidget.cursorRow = row - 1
                  /\ TheWidget.cursorCol = Len(lines[row])
           /\ ev.key.name = "delete" /\ col = Len(lines[row + 1])
                 /\ row < Len(lines) - 1 =>
                  /\ TheWidget.lines = SubSeq(lines, 1, row)
                                           \o <<lines[row + 1] \o lines[row + 2]>>
                                           \o SubSeq(lines, row + 3, Len(lines))
                  /\ TheWidget.cursorRow = row
                  /\ TheWidget.cursorCol = col
           /\ ev.key.name = "backspace" /\ col = 0 /\ row = 0 =>
                  /\ TheWidget.lines = lines
                  /\ TheWidget.cursorRow = 0 /\ TheWidget.cursorCol = 0
           /\ ev.key.name = "delete" /\ col = Len(lines[row + 1])
                 /\ row = Len(lines) - 1 =>
                  /\ TheWidget.lines = lines
                  /\ TheWidget.cursorRow = row /\ TheWidget.cursorCol = col

\* Delete at the end of the first line joined it with the second
C26_Witness ==
    /\ TheWidget.kind = "textarea" /\ ev.type = "key" /\ ev.key.name = "delete"
    /\ OldWidget.lines = << <<"a">>, <<"b">> >>
    /\ OldWidget.cursorRow = 0 /\ OldWidget.cursorCol = 1
    /\ TheWidget.lines = << <<"a", "b">> >>
    /\ TheWidget.cursorRow = 0 /\ TheWidget.cursorCol = 1

\* C27: opening a dropdown and then pressing Escape, with any number of Up and
\* Down hover moves in between, leaves the committed index as it was before the
\* opening and the dropdown closed; Up and Down never change the committed index.
C27_EscapeKeepsCommitted ==
    TheWidget.kind = "select" /\ ev.type = "key" =>
        /\ TheWidget.open => TheWidget.selected = ev.atOpen
        /\ ev.key.name = "escape" /\ OldWidget.open =>
               ~TheWidget.open /\ TheWidget.selected = ev.atOpen
        /\ ev.key.name \in {"up", "down"} => TheWidget.selected = OldWidget.selected

\* Escape closed a dropdown whose hover had been moved off the committed option
C27_Witness ==
    /\ TheWidget.kind = "select" /\ ev.type = "key" /\ ev.key.name = "escape"
    /\ OldWidget.open /\ ~TheWidget.open
    /\ TheWidget.hovered # TheWidget.selected
    /\ TheWidget.selected = ev.atOpen

\* C28: Enter or Space on a closed dropdown opens it with hover = committed
\* index; Enter on an open dropdown sets committed = hover and closes it.
C28_OpenAndCommit ==
    TheWidget.kind = "select" /\ ev.type = "key" =>
        /\ ev.key.name \in {"return", "space"} /\ ~OldWidget.open =>
               /\ TheWidget.open
               /\ TheWidget.hovered = TheWidget.selected
               /\ TheWidget.selected = OldWidget.selected
        /\ ev.key.name = "return" /\ OldWidget.open =>
               /\ ~TheWidget.open
               /\ TheWidget.selected = OldWidget.hovered

\* Space reopened a dropdown whose hover had been left off the committed
\* option, and the hover came back to it
C28_Witness ==
    /\ TheWidget.kind = "select" /\ ev.type = "key" /\ ev.key.name = "space"
    /\ ~OldWidget.open /\ OldWidget.hovered # OldWidget.selected
    /\ TheWidget.open /\ TheWidget.hovered = TheWidget.selected

\* C29: for a dropdown or radio list with N options constructed with any
\* initial index, after any key sequence the hover index and the committed
\* index are within [0, N-1] when N >= 1, and are never below 0 even when the
\* option list is empty.
C29_IndicesInRange ==
    TheWidget.kind \in {"select", "radio"} =>
        /\ TheWidget.hovered >= 0 /\ TheWidget.selected >= 0
        /\ Len(TheWidget.options) >= 1 =>
               /\ TheWidget.hovered <= Len(TheWidget.options) - 1
               /\ TheWidget.selected <= Len(TheWidget.options) - 1

\* C30: each Enter or Space on a button calls onClick exactly once before
\* handleKey returns and sets pressed; no other key calls it; if every scheduled
\* timeout eventually fires, pressed eventually becomes false again and onRender
\* is called once for each press.
C30_ButtonPress ==
    /\ [](TheWidget.kind = "button" /\ ev.type = "key" =>
            IF ev.key.name \in {"return", "space"}
            THEN /\ ev.onClick = 1 /\ TheWidget.pressed
                 /\ BagCardinality(timers) = BagCardinality(pre.timers) + 1
            ELSE /\ ev.onClick = 0 /\ TheWidget.pressed = OldWidget.pressed
                 /\ timers = pre.timers)
    /\ [](ev.renders + BagCardinality(timers) = ev.clicks)
    /\ [](TheWidget.pressed => <>(~TheWidget.pressed))
    /\ \A n \in 1..MaxPresses : [](ev.clicks >= n => <>(ev.renders >= n))

\* the timeouts of two presses have fired and the button is released
C30_Witness ==
    /\ TheWidget.kind = "button" /\ ev.type = "timer"
    /\ ev.clicks = 2 /\ ev.renders = 2
    /\ OldWidget.pressed /\ ~TheWidget.pressed

\* C31: the delayed reset of a button may run between any two key events; it
\* changes only the pressed flag of that button (not the selection, nor the
\* mode, scroll, focus index or any other child of any panel), and a button is
\* pressed only while at least one of its resets is still pending.
C31_ResetOnlyClearsPressed ==
    /\ ev.type = "timer" =>
           /\ sel = pre.sel
           /\ containers = [pre.containers EXCEPT
                  ![ev.button[1]].children[ev.button[2]].pressed = FALSE]
    /\ \A p \in 1..Len(containers) : \A i \in 1..Len(containers[p].children) :
           containers[p].children[i].kind = "button" /\ containers[p].children[i].pressed
               => BagIn(<<p, i>>, timers)

\* the reset of a first press ran after a second press, whose reset is still
\* pending
C31_Witness ==
    /\ ev.type = "timer"
    /\ pre.containers[ev.button[1]].children[ev.button[2]].pressed
    /\ ~containers[ev.button[1]].children[ev.button[2]].pressed
    /\ BagIn(ev.button, timers)
    /\ containers[ev.button[1]].state = "focus"

\* C34: auto-scroll for the focused child with cumulative offset o, hint h,
\* target t = o + h and viewport height vh: if t < scrollY the new scrollY is
\* clamp(min(t, o), 0, maxScrollY); if t >= scrollY + vh it is
\* clamp(min(t - vh + 1, o), 0, maxScrollY); otherwise scrollY is unchanged.
\* scrollX is never changed by auto-scroll.
C34_AutoScrollTarget ==
    AutoScrolled =>
        LET p == Current(After)
            o == LineOffset(After, p)
            t == o + activeLineHint(After.children[p])
            vh == ih(After)
            y == Before.scroll.y
        IN /\ After.scroll.y =
                  IF t < y THEN Clamp(Min(t, o), 0, maxScrollY(After))
                  ELSE IF t >= y + vh THEN Clamp(Min(t - vh + 1, o), 0, maxScrollY(After))
                  ELSE y
           /\ After.scroll.x = Before.scroll.x

\* the hinted row of the focused child was below the viewport and the panel
\* scrolled down, but not past the child's first row
C34_Witness ==
    /\ AutoScrolled
    /\ activeLineHint(After.children[Current(After)]) >= 1
    /\ HintRow(After, Current(After)) >= Before.scroll.y + ih(After)
    /\ After.scroll.y > Before.scroll.y
    /\ After.scroll.y = LineOffset(After, Current(After))

\* C37: in every state reachable by key events through a group or a panel, a
\* child is focused if and only if its panel is Active and the child is the one
\* at the panel's focus index; a panel in Default or Selected mode has focus
\* index -1 and no focused child.
C37_FocusedIffCurrent ==
    \A p \in 1..Len(containers) :
        LET c == containers[p] IN
        /\ \A i \in 1..Len(c.children) :
               IsFocusable(c.children[i]) =>
                   (c.children[i].focused <=> (c.state = "focus" /\ Current(c) = i))
        /\ c.state # "focus" => c.focus = -1

\* Escape took the focus from the child of an Active panel, which stays Active
C37_Witness ==
    /\ IsKey /\ Receiver # 0 /\ ev.key.name = "escape"
    /\ Before.state = "focus" /\ Current(Before) # 0
    /\ Before.children[Current(Before)].focused
    /\ After.state = "focus" /\ After.focus = -1
    /\ ~After.children[Current(Before)].focused

\* C38: for a dropdown that is a child of a panel driven only by key events,
\* open implies focused in every reachable state; a Tab, Shift+Tab or Escape
\* that reaches the focused dropdown's panel, and every key after which the
\* dropdown is no longer focused, leaves it closed with its committed index
\* unchanged.
C38_OpenImpliesFocused ==
    /\ \A p \in 1..Len(containers) : \A i \in 1..Len(containers[p].children) :
           containers[p].children[i].kind = "select" /\ containers[p].children[i].open
               => containers[p].children[i].focused
    /\ IsKey /\ Receiver # 0 =>
           \A i \in 1..Len(Before.children) :
               /\ Before.children[i].kind = "select" /\ Before.children[i].focused
               /\ ev.key.name \in {"tab", "escape"} \/ ~After.children[i].focused
               => /\ ~After.children[i].open
                  /\ After.children[i].selected = Before.children[i].selected

\* Tab moved the focus from an open dropdown, whose hover was off the
\* committed option, to the next child
C38_Witness ==
    /\ IsKey /\ Receiver # 0 /\ ev.key.name = "tab"
    /\ \E i \in 1..Len(Before.children) :
           /\ Before.children[i].kind = "select"
           /\ Before.children[i].open /\ Before.children[i].focused
           /\ Before.children[i].hovered # Before.children[i].selected
           /\ ~After.children[i].open /\ ~After.children[i].focused
           /\ After.children[i].selected = Before.children[i].selected

\* the group after k Escape keys delivered from the current state
Escaped(k) == GroupHandleKeys(Grouped(containers, sel, <<>>), Named("escape"), k)

\* C39: from every reachable state in which a panel is Active, whatever child
\* is focused and whether a dropdown is open or closed, k <= 3 Escape keys
\* delivered to the group bring that panel to Selected, and one further Escape
\* clears the selection and leaves every panel in Default.
C39_EscapeLeavesPanel ==
    ActivePanel(containers) # 0 =>
        \E k \in 1..3 :
            /\ \A j \in 1..(k - 1) : Escaped(j).containers[ActivePanel(containers)].state = "focus"
            /\ Escaped(k).containers[ActivePanel(containers)].state = "select"
            /\ Escaped(k).sel = ActivePanel(containers) - 1
            /\ Escaped(k + 1).sel = -1
            /\ \A i \in 1..Len(containers) : Escaped(k + 1).containers[i].state = "default"

\* a key opened the dropdown of an Active panel: three Escapes are needed, the
\* first closes the dropdown, the second takes the focus from it
C39_Witness ==
    /\ IsKey /\ ActivePanel(containers) # 0
    /\ \E i \in 1..Len(containers[ActivePanel(containers)].children) :
           /\ containers[ActivePanel(containers)].children[i].kind = "select"
           /\ containers[ActivePanel(containers)].children[i].open
           /\ ~pre.containers[ActivePanel(containers)].children[i].open
    /\ Escaped(2).containers[ActivePanel(containers)].state = "focus"
    /\ Escaped(3).containers[ActivePanel(containers)].state = "select"
    /\ Escaped(4).sel = -1

\* C40 as stated: after every key the multi-line editor consumes,
\* 0 <= scrollY <= max(0, lines - (height - 2)) and
\* scrollY <= cursorRow < scrollY + (height - 2), and the active-line hint
\* 1 + (cursorRow - scrollY) is in [1, height - 2].
C40_EditorRowVisible ==
    TheWidget.kind = "textarea" /\ ev.type = "key" /\ ev.consumed =>
        /\ 0 <= TheWidget.scroll.y
        /\ TheWidget.scroll.y <= Max(0, Len(TheWidget.lines) - (TheWidget.height - 2))
        /\ TheWidget.scroll.y <= TheWidget.cursorRow
        /\ TheWidget.cursorRow < TheWidget.scroll.y + (TheWidget.height - 2)
        /\ activeLineHint(TheWidget) \in 1..(TheWidget.height - 2)

\* C40, amended: after every key the multi-line editor consumes,
\* 0 <= scrollY <= max(0, lines - (height - 2)); when the editor has at least
\* one visible row (height >= 3), also
\* scrollY <= cursorRow < scrollY + (height - 2), and the active-line hint
\* 1 + (cursorRow - scrollY) is in [1, height - 2].
C40_EditorRowVisibleIfTall ==
    TheWidget.kind = "textarea" /\ ev.type = "key" /\ ev.consumed =>
        /\ 0 <= TheWidget.scroll.y
        /\ TheWidget.scroll.y <= Max(0, Len(TheWidget.lines) - (TheWidget.height - 2))
        /\ TheWidget.height >= 3 =>
               /\ TheWidget.scroll.y <= TheWidget.cursorRow
               /\ TheWidget.cursorRow < TheWidget.scroll.y + (TheWidget.height - 2)
               /\ activeLineHint(TheWidget) \in 1..(TheWidget.height - 2)

\* Backspace joined the last two of three lines of an editor of one visible
\* row, and the scroll followed the cursor and the shorter buffer
C40_Witness ==
    /\ TheWidget.kind = "textarea" /\ ev.type = "key" /\ ev.key.name = "backspace"
    /\ TheWidget.height = 3
    /\ Len(OldWidget.lines) = 3 /\ OldWidget.cursorRow = 2 /\ OldWidget.scroll.y = 2
    /\ Len(TheWidget.lines) = 2 /\ TheWidget.cursorRow = 1 /\ TheWidget.scroll.y = 1
    /\ activeLineHint(TheWidget) = 1


\* the canvas a drawing call has just acted on, and the canvas before it
TheCanvas == containers[1]
OldCanvas == pre.containers[1]
InCanvas(cv, q) == q[1] >= 0 /\ q[1] < pixelWidth(cv) /\ q[2] >= 0 /\ q[2] < pixelHeight(cv)
AllPixels == (-1..4) \X (-1..4)
CellsOf(cv) == [col \in 0..(cv.cols - 1), row \in 0..(cv.rows - 1) |-> getCell(cv, col, row)]
\* the pixels a drawing call aims at: the disc, the rectangle, or (for a line)
\* the box spanned by its end points, which are themselves aimed at
Aimed(q) ==
    CASE ev.type = "setPixel" -> q = <<ev.px, ev.py>>
      [] ev.type = "drawDot" ->
            (q[1] - ev.cx) * (q[1] - ev.cx) + (q[2] - ev.cy) * (q[2] - ev.cy) <= ev.r * ev.r
      [] ev.type = "drawBar" ->
            q[1] >= ev.x /\ q[1] < ev.x + ev.w /\ q[2] >= ev.top /\ q[2] <= ev.bottom
      [] ev.type = "drawLine" ->
            \E a \in ev.points, b \in ev.points :
                /\ Min(a[1], b[1]) <= q[1] /\ q[1] <= Max(a[1], b[1])
                /\ Min(a[2], b[2]) <= q[2] /\ q[2] <= Max(a[2], b[2])
      [] OTHER -> FALSE
MustDraw(q) == IF ev.type = "drawLine" THEN q \in ev.points ELSE Aimed(q)

\* C32: a setPixel outside [0, pixelWidth) x [0, pixelHeight) changes no pixel,
\* no colour and so no cell; drawLine, drawDot and drawBar reaching past the
\* edge draw their in-bounds part in the call's colour and nothing else: the
\* canvas keeps its size, and a pixel the call does not aim at keeps its state.
C32_OutOfBoundsDropped ==
    ev.type \in {"setPixel", "drawLine", "drawDot", "drawBar"} =>
        /\ DOMAIN TheCanvas.pixels = DOMAIN OldCanvas.pixels
        /\ \A py \in DOMAIN TheCanvas.pixels :
               /\ DOMAIN TheCanvas.pixels[py] = DOMAIN OldCanvas.pixels[py]
               /\ DOMAIN TheCanvas.colors[py] = DOMAIN OldCanvas.colors[py]
        /\ (ev.type = "setPixel" /\ ~InCanvas(OldCanvas, <<ev.px, ev.py>>)) =>
               /\ TheCanvas.pixels = OldCanvas.pixels
               /\ TheCanvas.colors = OldCanvas.colors
               /\ CellsOf(TheCanvas) = CellsOf(OldCanvas)
        /\ \A q \in AllPixels :
               IF ~InCanvas(OldCanvas, q) THEN TRUE
               ELSE IF MustDraw(q)
                    THEN TheCanvas.pixels[q[2]][q[1]] /\ TheCanvas.colors[q[2]][q[1]] = ev.color
               ELSE IF ~Aimed(q)
                    THEN /\ TheCanvas.pixels[q[2]][q[1]] = OldCanvas.pixels[q[2]][q[1]]
                         /\ TheCanvas.colors[q[2]][q[1]] = OldCanvas.colors[q[2]][q[1]]
               ELSE TRUE

\* a line that entered the canvas from outside was drawn, then a setPixel beside
\* the right edge was dropped
C32_Witness ==
    /\ ev.type = "setPixel" /\ ev.px = 4 /\ ev.py = 2
    /\ OldCanvas = drawLine(BrailleCanvas(2, 1), -1, -1, 2, 2, "green")
    /\ OldCanvas.pixels[2][2] /\ TheCanvas = OldCanvas

\* sub-pixel k (0..7, scan order r = 0..3 then c = 0..1) of cell (col, row)
SubPixel(col, row, k) == <<col * 2 + (k % 2), row * 4 + (k \div 2)>>
IsLit(cv, q) == cv.pixels[q[2]][q[1]]

\* C35: after any setPixel, the colour getCell reports for a cell is the colour
\* of its first set sub-pixel in scan order, and a cell that reported the colour
\* of a set sub-pixel before the call reports the same colour after it.
C35_FirstWriterWins ==
    ev.type = "setPixel" =>
        \A col \in 0..(TheCanvas.cols - 1), row \in 0..(TheCanvas.rows - 1) :
            /\ \/ /\ \A k \in 0..7 : ~IsLit(TheCanvas, SubPixel(col, row, k))
                  /\ getCell(TheCanvas, col, row).color = "gray"
               \/ \E k \in 0..7 :
                      /\ IsLit(TheCanvas, SubPixel(col, row, k))
                      /\ \A j \in 0..(k - 1) : ~IsLit(TheCanvas, SubPixel(col, row, j))
                      /\ getCell(TheCanvas, col, row).color =
                             TheCanvas.colors[SubPixel(col, row, k)[2]][SubPixel(col, row, k)[1]]
            /\ (\E k \in 0..7 : IsLit(OldCanvas, SubPixel(col, row, k))) =>
                   getCell(TheCanvas, col, row).color = getCell(OldCanvas, col, row).color

\* the chart a render has just rasterised
TheChart == containers[1]

\* C33: rasterising a chart whose values are all 0 (as in [0,0,0]) completes and
\* every bar has height 0: no pixel of the chart's canvas is set.
C33_ZeroBarsDrawNothing ==
    (/\ ev.type = "render"
     /\ Len(TheChart.values) >= 1
     /\ \A i \in 1..Len(TheChart.values) : TheChart.values[i] = 0) =>
        /\ ~TheChart.dirty
        /\ \A py \in DOMAIN TheChart.canvas.pixels :
               \A px \in DOMAIN TheChart.canvas.pixels[py] : ~TheChart.canvas.pixels[py][px]

\* C36: for a rasterised chart of n >= 1 values on a canvas pw pixels wide,
\* n*barPx + (n+1)*gapPx <= pw, and every bar, starting at
\* gapPx + i*(barPx + gapPx), ends at or before pixel column pw.
C36_BarsFitCanvas ==
    (ev.type = "render" /\ Len(TheChart.values) >= 1) =>
        LET n == Len(TheChart.values)
            pw == pixelWidth(TheChart.canvas)
            b == barPx(pw, n)
            g == gapPx(pw, n)
        IN /\ n * b + (n + 1) * g <= pw
           /\ \A i \in 0..(n - 1) : g + i * (b + g) >= 0 /\ g + i * (b + g) + b <= pw
====
